---- MODULE Spec2Model ----
(***************************************************************************)
(* Protocol handshake of the MappApp/vxPy controller and its protocolized  *)
(* worker processes.                                                       *)
(*                                                                         *)
(*   supervisor : src/mappapp/modules/controller.py  (Controller)          *)
(*   workers    : src/process/Process.py (AbstractProcess._run_protocol)   *)
(*                                                                         *)
(* Every process runs an event loop (AbstractProcess.run): handle_inbox()  *)
(* and then main().  start_protocol / abortProtocol arrive as RPCs and     *)
(* are executed by the controller's handle_inbox, so they interleave with  *)
(* Controller.main at the granularity of whole calls.  One action of the   *)
(* model is one such call, or one evaluation of _run_protocol by a worker  *)
(* (one iteration of the busy-wait loop when the worker is in READY).      *)
(*                                                                         *)
(* Wall-clock time (time.time()) is the variable now, counted in units of  *)
(* fixed_delay (0.1 s).  Nothing bounds the time between two ticks of a    *)
(* process: the operating system schedules the processes.                  *)
(***************************************************************************)
EXTENDS Integers, Sequences, FiniteSets, TLC

\* ------------------------------------------------------------------------
\* Bounds of the model (not program constants)
\* ------------------------------------------------------------------------
\* longest protocol of the protocol library, in phases
MaxPhases == 2
\* number of operator calls that take effect (accepted start_protocol calls
\* and abortProtocol calls together)
MaxCalls == 2

\* messages the workers of the message variant send altogether
MaxSends == 3

\* RPCs a worker handles
MaxRpc == 3

\* RingBuffer._bufferLength (1000 by default)
bufferLength == 3

\* entries the producer writes
MaxIndex == 5

\* entries written to the attribute a trigger watches
MaxSamples == 6

\* clock readings during which recording calls are made
MaxRecTime == 10

\* messages sent to the worker whose loop is modelled
MaxInbox == 4

\* ------------------------------------------------------------------------
\* Program constants
\* ------------------------------------------------------------------------
Controller == "Controller"

\* self._active_protocols: the registered processes that are protocolized
ActiveProtocols == {"Display", "Io"}

ProcessNames == {Controller} \cup ActiveProtocols

\* the values of Def.State that the handshake uses
States ==
  {"NA", "STOPPED", "STARTING", "IDLE", "PREPARE_PROTOCOL", "WAIT_FOR_PHASE",
   "PREPARE_PHASE", "READY", "RUNNING", "PHASE_END", "PROTOCOL_END"}

\* Python's None in an integer-valued slot
None == -1

\* the cleared protocol name ''
NoName == 0

\* fixed_delay = 0.1 s is the unit of the clock
fixed_delay == 1

\* clock units in one second, the resolution of the recording folder's name
ticks_per_second == 10

\* a compression method other than None
Gzip == 1

\* protocol paths the operator can select; protocol p has p phases
ProtocolPaths == 1 .. MaxPhases

\* protocols.load(path): the protocol object, here its list of phase durations
\* (phase i lasts 1 or 2 clock units)
load(path) == [i \in 1 .. path |-> 1 + ((i - 1) % 2)]

\* StaticPhasicProtocol.phase_count
phase_count(prot) == Len(prot)

\* StaticPhasicProtocol.fetch_phase_duration (phase ids count from 0)
fetch_phase_duration(prot, phase_id) == prot[phase_id + 1]

\* ------------------------------------------------------------------------
\* State
\* ------------------------------------------------------------------------
VARIABLES
  State,             \* ipc.State.<name>.value, one cell per process
  Protocol,          \* ipc.Control.Protocol: name, phase_id, phase_start, phase_stop
  Recording,         \* ipc.Control.Recording: enabled, active, folder
  protocol,          \* Controller.protocol, the loaded protocol (<<>> before the first load)
  phase_start_time,  \* AbstractProcess.phase_start_time of each worker
  alive,             \* FALSE once an uncaught exception has ended the worker's loop
  now,               \* time.time()
  \* history variables (not program state)
  prepared,          \* per worker: phase id its last _prepare_phase ran for
  ran,               \* per worker: phase id for which it last entered RUNNING
  entered,           \* phase ids for which the supervisor entered RUNNING in this protocol
  aborted,           \* abortProtocol was called since the last accepted start_protocol
  sinceAbort,        \* per worker, since the last abortProtocol: "-" it was not
                     \* RUNNING at the call; "pending" it was RUNNING and has not
                     \* evaluated _run_protocol since; "early" it has, only at the
                     \* clock reading of the call; "late" it has at a later reading
  calls,             \* number of operator calls that took effect so far
  \* shutdown
  Pipes,             \* ipc.Pipes: per worker the messages sent and not yet received
  processes,         \* Controller._processes: names of the spawned processes
  ctrl_pc,           \* where the controller is: "run" in the loop of run(),
                     \* "last_main" _shutdown is set and the main() of this
                     \* iteration is still to come, "wait" in the loop of
                     \* start() after run(), "exited" after it
  prompted,          \* the GUI shows the shutdown confirmation
  \* message variant (src/Controller.py)
  ctrlQueue,         \* Controller._ctrlQueue, the fan-in queue
  inPipe,            \* per worker its _inPipe: messages sent and not received
  running,           \* per worker: its loop in BaseProcess.run has not ended
  procs,             \* Controller._processes (and _pipes) of this variant
  ctrl_loop,         \* "run" main loop, "wait" shutdown loop, "done" after it
  \* history variables of the message variant
  sent,              \* per sender and receiver: the messages sent, in order
  taken,             \* per worker: the messages taken from its pipe, in order
  handled,           \* the messages the controller handled itself, in order
  warned,            \* number of forwards that failed
  \* RPC dispatch of one worker (src/process/Process.py)
  registered_callbacks,  \* AbstractProcess._registered_callbacks (its keys)
  rpc_cell,          \* the worker's own state cell
  rpc_running,       \* FALSE once an exception has left handle_inbox
  rpc_log,           \* the levels of the records written, in order
  rpc_ran,           \* history: the callables that were called, in order
  rpc_calls,         \* history: the names of the RPCs handled, in order
  \* ring buffer of one routine (src/Routine.py)
  currentIdx,        \* RingBuffer._currentIdx.value
  data,              \* RingBuffer._data_<attr>: the slots of one attribute
  written,           \* the producer has set the attribute in this update
                     \* and not yet called next()
  rd,                \* the locals of the read() in progress
  c_next,            \* consumer: the index its next read starts from
  c_received,        \* history: the indices the consumer was handed
  c_overrun,         \* history: more than the buffer length was produced
                     \* between two reads of the consumer
  \* trigger on an attribute (src/vxpy/core/event.py)
  trig_data,         \* the values written to the attribute, entry i at i + 1
  trig_kind,         \* the class of the trigger, NoTrigger before __init__
  trig_last,         \* Trigger._last_read_idx
  trig_active,       \* Trigger._active
  fired,             \* history: the (index, value) pairs the callback got
  trig_start,        \* history: _last_read_idx as __init__ set it
  trig_eval,         \* history: one earlier evaluation of condition()
  \* recording calls (src/mappapp/modules/controller.py)
  rec_disk,          \* the recording folders that exist in the output folder
  rec_ret,           \* history: what the last recording call returned
  rec_log,           \* history: the highest level the last recording call logged
  \* construction of the Io process (src/mappapp/process/Io.py)
  io_setup,          \* "pending" __init__ has not set up the device yet, "ok"
                     \* it has and run() was entered, "raised" the set-up
                     \* raised, "failed" connect() or setup() returned False
  \* event loop of one worker (AbstractProcess.run, src/process/Process.py)
  tick_inbox,        \* the messages in the worker's pipe, oldest first
  tick_pc,           \* "inbox" before handle_inbox, "main" before main(),
                     \* "exited" after the loop
  tick_shutdown,     \* AbstractProcess._shutdown
  tick_cell,         \* the worker's state cell
  tick_sent,         \* history: number of messages sent to the worker
  tick_handled,      \* history: the messages handled, in order
  task_scheduled,    \* Worker: _scheduled_tasks is not empty
  task_ctrl,         \* Worker: the controller's state cell as the worker
                     \* reads it
  tick_left,         \* history: how many of the messages pending when
                     \* handle_inbox was called it left in the pipe
  \* --- the producer's recording file (src/Routine.py) ---
  h5File,            \* Routines.h5File: None or the open file, named by
                     \* the folder it was opened under
  file_samples,      \* history: the appended samples, each with the file
                     \* it went to and the folder of the recording control
                     \* when it was appended
  file_closed,       \* history: the files that were closed
  \* --- routine triggers (src/vxpy/core/routine.py) ---
  triggers,          \* Routine._triggers: the names of the triggers
  trigger_registered,\* Trigger._registered
  connected,         \* history: the pairs connected to each trigger
  emitted,           \* history: the name of the last emit_trigger
  rpc_sent,          \* history: the RPCs the last emit_trigger sent
  emit_log           \* history: the log level of the last emit_trigger

vars ==
  <<State, Protocol, Recording, protocol, phase_start_time, alive, now,
    prepared, ran, entered, aborted, sinceAbort, calls,
    Pipes, processes, ctrl_pc, prompted,
    ctrlQueue, inPipe, running, procs, ctrl_loop, sent, taken, handled,
    warned,
    registered_callbacks, rpc_cell, rpc_running, rpc_log, rpc_ran, rpc_calls,
    currentIdx, data, written, rd, c_next, c_received, c_overrun,
    trig_data, trig_kind, trig_last, trig_active, fired, trig_start,
    trig_eval,
    rec_disk, rec_ret, rec_log, io_setup,
    tick_inbox, tick_pc, tick_shutdown, tick_cell, tick_sent, tick_handled,
    tick_left, task_scheduled, task_ctrl,
    h5File, file_samples, file_closed,
    triggers, trigger_registered, connected, emitted, rpc_sent, emit_log>>

shutvars == <<Pipes, processes, ctrl_pc, prompted>>

\* the message variant (src/Controller.py)
msgvars ==
  <<ctrlQueue, inPipe, running, procs, ctrl_loop, sent, taken, handled,
    warned>>

\* RPC dispatch (src/process/Process.py)
rpcvars ==
  <<registered_callbacks, rpc_cell, rpc_running, rpc_log, rpc_ran, rpc_calls>>

\* ring buffer (src/Routine.py)
ringvars == <<currentIdx, data, written, rd, c_next, c_received, c_overrun>>

\* trigger (src/vxpy/core/event.py)
trigvars ==
  <<trig_data, trig_kind, trig_last, trig_active, fired, trig_start,
    trig_eval>>

\* event loop of one worker (src/process/Process.py)
tickvars ==
  <<tick_inbox, tick_pc, tick_shutdown, tick_cell, tick_sent, tick_handled,
    tick_left, task_scheduled, task_ctrl>>

\* recording calls (src/mappapp/modules/controller.py)
recvars == <<rec_disk, rec_ret, rec_log>>

\* the producer's recording file (src/Routine.py)
filevars == <<h5File, file_samples, file_closed>>

\* routine triggers (src/vxpy/core/routine.py)
fanvars ==
  <<triggers, trigger_registered, connected, emitted, rpc_sent, emit_log>>

latevars == <<filevars, fanvars>>

\* the parts that none of the protocol, message, RPC and ring actions touch
auxvars == <<trigvars, recvars, io_setup, tickvars, latevars>>

\* the variables of the parts that the protocol handshake does not touch
extvars == <<msgvars, rpcvars, ringvars, auxvars>>

progvars == <<State, Protocol, Recording, protocol, phase_start_time, alive>>

histvars == <<prepared, ran, entered, aborted, sinceAbort>>

\* the variables of the protocol handshake and the state-cell shutdown
protovars == <<progvars, now, histvars, calls, shutvars>>

\* ipc.in_state(code, process_name)
in_state(code, process_name) == State[process_name] = code

\* ------------------------------------------------------------------------
\* Message variant (src/Controller.py): workers put on the fan-in queue, the
\* controller takes from it and forwards through the receiver's pipe
\* ------------------------------------------------------------------------
\* the worker processes of the message variant
MsgWorkers == {"GUI", "Display", "Camera"}

\* a receiver name for which the controller holds no pipe
NoProcess == "Io"

\* BaseProcess.Signals
Signals == {"RPC", "Shutdown", "ConfirmShutdown"}

\* the names a worker can address
Receivers == MsgWorkers \cup {Controller, NoProcess}

MsgInit ==
  /\ ctrlQueue = <<>>
  /\ inPipe = [w \in MsgWorkers |-> <<>>]
  /\ running = [w \in MsgWorkers |-> TRUE]
  /\ procs = MsgWorkers
  /\ ctrl_loop = "run"
  /\ sent = [x \in MsgWorkers |-> [r \in Receivers |-> <<>>]]
  /\ taken = [w \in MsgWorkers |-> <<>>]
  /\ handled = <<>>
  /\ warned = 0

\* ------------------------------------------------------------------------
\* RPC dispatch of a worker (AbstractProcess._execute_rpc)
\* ------------------------------------------------------------------------
\* self.__class__.__name__ of the worker
ClassName == "Worker"

\* attributes of the process class that an RPC can name: set_state(RUNNING)
\* runs; run_task sets RUNNING and then raises for a task that cannot be loaded
Methods == {"set_state", "run_task"}

\* callables that raise when called
Raising == {<<ClassName, "run_task">>, <<"Routine", "bad">>}

\* the callbacks that routines expose (fun.__qualname__, split at the dots)
Exposed == {<<"Routine", "cb">>, <<"Routine", "bad">>}

\* the RPC names that arrive, split at the dots as fun.split('.') does
FunNames ==
  {<<ClassName, "set_state">>, <<ClassName, "run_task">>,
   <<ClassName, "nope">>, <<ClassName>>,
   <<"Routine", "cb">>, <<"Routine", "bad">>, <<"Routine", "nope">>}

RpcInit ==
  /\ registered_callbacks = {}
  /\ rpc_cell = "IDLE"
  /\ rpc_running = TRUE
  /\ rpc_log = <<>>
  /\ rpc_ran = <<>>
  /\ rpc_calls = <<>>

\* ------------------------------------------------------------------------
\* Ring buffer of a routine (src/Routine.py), one attribute, one producer,
\* one reader
\* ------------------------------------------------------------------------
\* RingBuffer.length()
length == bufferLength

\* slot content before the first write (IPC.Manager.list(length * [None]))
Empty == None

\* the value the producer computes for the entry with index i
val(i) == i

\* the locals of read() when no read is in progress
ReadIdle ==
  [pc |-> "idle", consumer |-> FALSE, last |-> 0, seen |-> 0, list_idx |-> 0,
   lo |-> 0, idcs |-> <<>>, values |-> <<>>]

\* ------------------------------------------------------------------------
\* Trigger on an attribute (src/vxpy/core/event.py)
\* ------------------------------------------------------------------------
\* the trigger classes
TriggerKinds == {"OnTrigger", "RisingEdgeTrigger", "FallingEdgeTrigger"}

\* no trigger was constructed yet
NoTrigger == "none"

\* no evaluation is remembered
NoEval == [kind |-> NoTrigger, a |-> 0, b |-> 0, fired |-> {}]

\* the values an entry takes (a digital pin)
SampleValues == {0, 1}

TrigInit ==
  /\ trig_data = <<>>
  /\ trig_kind = NoTrigger
  /\ trig_last = None
  /\ trig_active = FALSE
  /\ fired = <<>>
  /\ trig_start = None
  /\ trig_eval = NoEval

\* the worker has entered run(): _shutdown is False and the cell is IDLE
TickInit ==
  /\ tick_inbox = <<>>
  /\ tick_pc = "inbox"
  /\ tick_shutdown = FALSE
  /\ tick_cell = "IDLE"
  /\ tick_sent = 0
  /\ tick_handled = <<>>
  /\ tick_left = 0
  /\ task_scheduled = FALSE
  /\ task_ctrl = "IDLE"

\* the (process, callback) pairs that routines connect, and the trigger names
CallbackPairs == {<<"Io", "do_trigger01">>, <<"Worker", "trigger_flash">>}

TriggerNames == {"saccade_trigger", "other_trigger"}

NoEmit == "none"

FileInit ==
  /\ h5File = None
  /\ file_samples = {}
  /\ file_closed = {}

FanInit ==
  /\ triggers = {}
  /\ trigger_registered = <<>>
  /\ connected = [t \in TriggerNames |-> {}]
  /\ emitted = NoEmit
  /\ rpc_sent = <<>>
  /\ emit_log = "none"

RecInit ==
  /\ rec_disk = {}
  /\ rec_ret = "none"
  /\ rec_log = "none"

RingInit ==
  /\ currentIdx = 0
  /\ data = [s \in 0 .. length - 1 |-> Empty]
  /\ written = FALSE
  /\ rd = ReadIdle
  /\ c_next = 0
  /\ c_received = <<>>
  /\ c_overrun = FALSE

\* ------------------------------------------------------------------------
\* Initial state: all processes have entered run() and set IDLE
\* ------------------------------------------------------------------------
Init ==
  /\ State = [p \in ProcessNames |-> "IDLE"]
  /\ Protocol = [name |-> None, phase_id |-> None,
                 phase_start |-> None, phase_stop |-> None]
  /\ Recording = [enabled |-> TRUE, active |-> FALSE, folder |-> 0,
                  use_compression |-> FALSE, compression_method |-> None]
  /\ protocol = <<>>
  /\ phase_start_time = [w \in ActiveProtocols |-> None]
  /\ alive = [w \in ActiveProtocols |-> TRUE]
  /\ now = 0
  /\ prepared = [w \in ActiveProtocols |-> None]
  /\ ran = [w \in ActiveProtocols |-> None]
  /\ entered = {}
  /\ aborted = FALSE
  /\ sinceAbort = [w \in ActiveProtocols |-> "-"]
  /\ calls = 0
  /\ Pipes = [w \in ActiveProtocols |-> <<>>]
  /\ processes = ActiveProtocols
  /\ ctrl_pc = "run"
  /\ prompted = FALSE
  /\ MsgInit
  /\ RpcInit
  /\ RingInit
  /\ TrigInit
  /\ RecInit
  /\ io_setup = "ok"
  /\ TickInit
  /\ FileInit
  /\ FanInit

\* ------------------------------------------------------------------------
\* Controller: recording (called by start_protocol and by main)
\* ------------------------------------------------------------------------
\* f'rec_{time.strftime("%Y-%m-%d-%H-%M-%S")}': the name has the resolution
\* of one second
folder_name(t) == 1 + (t \div ticks_per_second)

\* mutant of start_recording: an active recording is started over
start_recording_restart(rec, compression_method, mkdir_ok) ==
  IF ~rec.enabled THEN [ret |-> "True", log |-> "WARNING", rec |-> rec]
  ELSE LET named == IF rec.folder = 0
                    THEN [rec EXCEPT !.folder = folder_name(now)]
                    ELSE rec
       IN IF ~mkdir_ok
          THEN [ret |-> "raised", log |-> "DEBUG", rec |-> named]
          ELSE [ret |-> "True", log |-> "INFO",
                rec |-> [named EXCEPT
                           !.active = TRUE,
                           !.use_compression = compression_method # None,
                           !.compression_method = compression_method]]

\* Controller.start_recording. mkdir_ok: the output folder exists or os.mkdir
\* succeeds. The result is the return value ("raised" for the exception of a
\* failed os.mkdir), the highest level logged, and the new
\* ipc.Control.Recording.
start_recording(rec, compression_method, mkdir_ok) ==
  IF rec.active THEN [ret |-> "False", log |-> "WARNING", rec |-> rec]
  ELSE IF ~rec.enabled THEN [ret |-> "True", log |-> "WARNING", rec |-> rec]
  ELSE LET named == IF rec.folder = 0
                    THEN [rec EXCEPT !.folder = folder_name(now)]
                    ELSE rec
       IN IF ~mkdir_ok
          THEN [ret |-> "raised", log |-> "DEBUG", rec |-> named]
          ELSE [ret |-> "True", log |-> "INFO",
                rec |-> [named EXCEPT
                           !.active = TRUE,
                           !.use_compression = compression_method # None,
                           !.compression_method = compression_method]]

\* mutant of stop_recording: the folder is kept
stop_recording_keeps_folder(rec) == [rec EXCEPT !.active = FALSE]

\* Controller.stop_recording: the new ipc.Control.Recording (the method also
\* sets the controller's state to IDLE, see where it is called)
stop_recording(rec) == [rec EXCEPT !.active = FALSE, !.folder = 0]

\* ------------------------------------------------------------------------
\* Controller: start_protocol, abortProtocol (RPCs from the operator)
\* ------------------------------------------------------------------------
\* the busy check of start_protocol: only the Display process is looked at
start_protocol_busy == ~in_state("IDLE", "Display")

\* Controller.start_protocol(protocol_path)
StartProtocol(protocol_path, mkdir_ok) ==
  /\ UNCHANGED extvars
  /\ calls < MaxCalls
  /\ ctrl_pc = "run"
  /\ UNCHANGED shutvars
  /\ UNCHANGED <<protocol, phase_start_time, alive, now, prepared, ran>>
  /\ IF start_protocol_busy
     THEN \* warning, return
          UNCHANGED <<State, Protocol, Recording, entered, aborted,
                      sinceAbort, calls>>
     ELSE LET r == IF Recording.enabled /\ ~Recording.active
                   THEN start_recording(Recording, None, mkdir_ok)
                   ELSE [ret |-> "True", rec |-> Recording]
          IN /\ Recording' = r.rec
             /\ IF r.ret # "True"
                THEN \* recording could not be started: return
                     UNCHANGED <<State, Protocol, entered, aborted,
                                 sinceAbort, calls>>
                ELSE /\ Protocol' = [name |-> protocol_path, phase_id |-> None,
                                     phase_start |-> None, phase_stop |-> None]
                     /\ State' = [State EXCEPT ![Controller] = "PREPARE_PROTOCOL"]
                     /\ entered' = {}
                     /\ aborted' = FALSE
                     /\ sinceAbort' = [w \in ActiveProtocols |-> "-"]
                     /\ calls' = calls + 1

\* the stop time abortProtocol writes
abort_stop_time == now

\* Controller.abortProtocol
AbortProtocol ==
  /\ UNCHANGED extvars
  /\ calls < MaxCalls
  /\ ctrl_pc = "run"
  /\ UNCHANGED shutvars
  /\ calls' = calls + 1
  /\ Protocol' = [Protocol EXCEPT !.phase_stop = abort_stop_time]
  /\ State' = [State EXCEPT ![Controller] = "PROTOCOL_END"]
  /\ aborted' = TRUE
  /\ sinceAbort' = [w \in ActiveProtocols |->
                      IF in_state("RUNNING", w) THEN "pending" ELSE "-"]
  /\ UNCHANGED <<Recording, protocol, phase_start_time, alive, now,
                 prepared, ran, entered>>

\* ------------------------------------------------------------------------
\* Controller.main: one tick of the protocol state machine
\* ------------------------------------------------------------------------
\* mutant of all_in_state: one worker in the state is enough
all_in_state_any(code) == \E w \in ActiveProtocols : in_state(code, w)

\* the checks of main: all([ipc.in_state(code, p) for p in _active_protocols])
all_in_state(code) == \A w \in ActiveProtocols : in_state(code, w)

\* mutant of start_protocol_phase: the first phase is numbered 1
start_protocol_phase_from_one(phase_id) == IF phase_id = None THEN 1 ELSE phase_id + 1

\* Controller.start_protocol_phase() without _id: the advanced phase counter
start_protocol_phase(phase_id) == IF phase_id = None THEN 0 ELSE phase_id + 1

\* the start time main schedules for a phase
scheduled_start == now + fixed_delay

\* the stop time main schedules for a phase of the given duration
scheduled_stop(duration) == now + duration + fixed_delay

\* mutant of is_last_phase: > in place of >=
is_last_phase_off_by_one(prot, phase_id) == (phase_id + 1) > phase_count(prot)

\* PHASE_END: no further phase follows phase_id
is_last_phase(prot, phase_id) == (phase_id + 1) >= phase_count(prot)

\* the PREPARE_PHASE branch of main, entered with phase counter phase_id
\* (the Protocol record and controller state it leaves behind)
main_prepare_phase(prot, phase_id) ==
  IF ~all_in_state("READY")
  THEN [state |-> "PREPARE_PHASE",
        Protocol |-> [Protocol EXCEPT !.phase_id = phase_id],
        run |-> FALSE]
  ELSE [state |-> "RUNNING",
        Protocol |-> [Protocol EXCEPT
                        !.phase_id = phase_id,
                        !.phase_start = scheduled_start,
                        !.phase_stop =
                           scheduled_stop(fetch_phase_duration(prot, phase_id))],
        run |-> TRUE]

\* the controller's stop test in RUNNING
controller_stop_reached == Protocol.phase_stop < now

\* Controller.main. The branches PREPARE_PROTOCOL and PREPARE_PHASE are two
\* consecutive if-statements, the others are elif-branches of the second.
ControllerMain ==
  /\ UNCHANGED extvars
  /\ ctrl_pc \in {"run", "last_main"}
  /\ ctrl_pc' = IF ctrl_pc = "last_main" THEN "wait" ELSE "run"
  /\ UNCHANGED <<phase_start_time, alive, now, prepared, ran, aborted,
                 sinceAbort, calls, Pipes, processes, prompted>>
  /\ CASE in_state("PREPARE_PROTOCOL", Controller) ->
            LET prot == load(Protocol.name)
            IN /\ protocol' = prot
               /\ UNCHANGED Recording
               /\ IF ~all_in_state("WAIT_FOR_PHASE")
                  THEN UNCHANGED <<State, Protocol, entered>>
                  ELSE LET r == main_prepare_phase(
                                  prot, start_protocol_phase(Protocol.phase_id))
                       IN /\ State' = [State EXCEPT ![Controller] = r.state]
                          /\ Protocol' = r.Protocol
                          /\ entered' = IF r.run
                                        THEN entered \cup {r.Protocol.phase_id}
                                        ELSE entered
       [] in_state("PREPARE_PHASE", Controller) ->
            LET r == main_prepare_phase(protocol, Protocol.phase_id)
            IN /\ State' = [State EXCEPT ![Controller] = r.state]
               /\ Protocol' = r.Protocol
               /\ entered' = IF r.run
                             THEN entered \cup {r.Protocol.phase_id}
                             ELSE entered
               /\ UNCHANGED <<Recording, protocol>>
       [] in_state("RUNNING", Controller) ->
            /\ State' = [State EXCEPT ![Controller] =
                           IF controller_stop_reached THEN "PHASE_END" ELSE @]
            /\ UNCHANGED <<Protocol, Recording, protocol, entered>>
       [] in_state("PHASE_END", Controller) ->
            /\ IF is_last_phase(protocol, Protocol.phase_id)
               THEN /\ State' = [State EXCEPT ![Controller] = "PROTOCOL_END"]
                    /\ UNCHANGED Protocol
               ELSE /\ State' = [State EXCEPT ![Controller] = "PREPARE_PHASE"]
                    /\ Protocol' = [Protocol EXCEPT
                                      !.phase_id = start_protocol_phase(@)]
            /\ UNCHANGED <<Recording, protocol, entered>>
       [] in_state("PROTOCOL_END", Controller) ->
            /\ IF all_in_state("IDLE")
               THEN /\ Recording' = stop_recording(Recording)
                    /\ Protocol' = [Protocol EXCEPT !.name = NoName]
                    /\ State' = [State EXCEPT ![Controller] = "IDLE"]
               ELSE UNCHANGED <<State, Protocol, Recording>>
            /\ UNCHANGED <<protocol, entered>>
       [] OTHER -> \* sleep
            UNCHANGED <<State, Protocol, Recording, protocol, entered>>

\* ------------------------------------------------------------------------
\* Worker: AbstractProcess._run_protocol, one evaluation
\* ------------------------------------------------------------------------
\* mutant of worker_stop_reached: <= in place of <
worker_stop_reached_inclusive == Protocol.phase_stop <= now

\* the worker's stop test in RUNNING
worker_stop_reached == Protocol.phase_stop < now

\* mutant of worker_go: the start time is not waited for
worker_go_at_once == in_state("RUNNING", Controller)

\* READY: the go condition of the busy-wait loop
worker_go == /\ in_state("RUNNING", Controller)
             /\ Protocol.phase_start <= now

\* the state cell after one evaluation of _run_protocol by a process whose
\* cell is cell, with the controller's cell ctrl, the go test of READY and
\* the stop test of RUNNING
run_protocol_cell(cell, ctrl, go, stop_reached) ==
  CASE cell = "RUNNING" ->
         IF stop_reached THEN "PHASE_END" ELSE "RUNNING"
    [] cell = "IDLE" ->
         IF ctrl = "PREPARE_PROTOCOL" THEN "WAIT_FOR_PHASE" ELSE "IDLE"
    [] cell = "WAIT_FOR_PHASE" ->
         IF ctrl = "PREPARE_PHASE" THEN "READY" ELSE "WAIT_FOR_PHASE"
    [] cell = "READY" ->
         IF go THEN "RUNNING" ELSE "READY"
    [] cell = "PHASE_END" ->
         IF ctrl = "PREPARE_PHASE" THEN "WAIT_FOR_PHASE"
         ELSE IF ctrl = "PROTOCOL_END" THEN "IDLE"
         ELSE "PHASE_END"
    [] OTHER -> cell

\* the state cell of worker w after one evaluation of _run_protocol
run_protocol_state(w) ==
  run_protocol_cell(State[w], State[Controller], worker_go,
                    worker_stop_reached)

\* RUNNING with phase_stop = None: the comparison None < time.time() raises
\* TypeError, which nothing catches: the worker's loop ends
run_protocol_raises(w) ==
  in_state("RUNNING", w) /\ Protocol.phase_stop = None

RunProtocol(w) ==
  /\ UNCHANGED extvars
  /\ alive[w]
  /\ ~in_state("STOPPED", w)
  /\ Pipes[w] = <<>>
  /\ UNCHANGED shutvars
  /\ UNCHANGED <<Protocol, Recording, protocol, now, entered, aborted, calls>>
  /\ sinceAbort' =
       IF sinceAbort[w] \in {"pending", "early"}
       THEN [sinceAbort EXCEPT ![w] =
               IF Protocol.phase_stop # None /\ now > Protocol.phase_stop
               THEN "late" ELSE "early"]
       ELSE sinceAbort
  /\ IF run_protocol_raises(w)
     THEN /\ alive' = [alive EXCEPT ![w] = FALSE]
          /\ UNCHANGED <<State, phase_start_time, prepared, ran>>
     ELSE LET next == run_protocol_state(w)
          IN /\ State' = [State EXCEPT ![w] = next]
             /\ UNCHANGED alive
             /\ phase_start_time' =
                  IF in_state("READY", w) /\ next = "RUNNING"
                  THEN [phase_start_time EXCEPT ![w] = now]
                  ELSE phase_start_time
             /\ prepared' =
                  IF in_state("WAIT_FOR_PHASE", w) /\ next = "READY"
                  THEN [prepared EXCEPT ![w] = Protocol.phase_id]
                  ELSE IF in_state("IDLE", w) /\ next = "WAIT_FOR_PHASE"
                  THEN [prepared EXCEPT ![w] = None]
                  ELSE prepared
             /\ ran' =
                  IF in_state("READY", w) /\ next = "RUNNING"
                  THEN [ran EXCEPT ![w] = Protocol.phase_id]
                  ELSE IF in_state("IDLE", w) /\ next = "WAIT_FOR_PHASE"
                  THEN [ran EXCEPT ![w] = None]
                  ELSE ran

\* ------------------------------------------------------------------------
\* The clock
\* ------------------------------------------------------------------------
\* Some process still waits for the clock: a start or stop time is not yet
\* passed. Once both are passed every comparison with the clock is decided
\* and further time only shifts the next schedule, so the clock is advanced
\* only while a deadline is pending.
deadline_pending ==
  \/ Protocol.phase_start # None /\ now < Protocol.phase_start
  \/ Protocol.phase_stop # None /\ now <= Protocol.phase_stop

Tick ==
  /\ UNCHANGED extvars
  /\ deadline_pending
  /\ now' = now + 1
  /\ UNCHANGED <<progvars, histvars, calls, shutvars>>

\* ------------------------------------------------------------------------
\* Specification: operator calls at any time, asynchronous processes
\* ------------------------------------------------------------------------
Next ==
  \/ \E p \in ProtocolPaths, mkdir_ok \in BOOLEAN : StartProtocol(p, mkdir_ok)
  \/ AbortProtocol
  \/ ControllerMain
  \/ \E w \in ActiveProtocols : RunProtocol(w)
  \/ Tick

Spec == Init /\ [][Next]_vars

TypeOK ==
  /\ State \in [ProcessNames -> States]
  /\ Protocol.name \in {None, NoName} \cup ProtocolPaths
  /\ Protocol.phase_id \in {None} \cup (0 .. MaxPhases - 1)
  /\ Protocol.phase_start \in {None} \cup Nat
  /\ Protocol.phase_stop \in {None} \cup Nat
  /\ Recording.enabled \in BOOLEAN /\ Recording.active \in BOOLEAN
  /\ Recording.folder \in Nat
  /\ now \in Nat
  /\ Pipes \in [ActiveProtocols -> {<<>>, <<"shutdown">>}]
  /\ processes \subseteq ActiveProtocols
  /\ ctrl_pc \in {"run", "last_main", "wait", "exited"}
  /\ prompted \in BOOLEAN

\* ------------------------------------------------------------------------
\* Specification with the operator acting through the GUI, and fair
\* scheduling: every process keeps running its loop and the clock advances
\* ------------------------------------------------------------------------
\* the GUI enables its start button only while the controller is IDLE
GuiStartProtocol ==
  /\ in_state("IDLE", Controller)
  /\ \E p \in ProtocolPaths, mkdir_ok \in BOOLEAN : StartProtocol(p, mkdir_ok)

\* the GUI enables its abort button only while a protocol name is set
GuiAbortProtocol ==
  /\ Protocol.name \in ProtocolPaths
  /\ AbortProtocol

GuiNext ==
  \/ GuiStartProtocol
  \/ GuiAbortProtocol
  \/ ControllerMain
  \/ \E w \in ActiveProtocols : RunProtocol(w)
  \/ Tick

FairSpec ==
  /\ Init
  /\ [][GuiNext]_vars
  /\ WF_vars(ControllerMain)
  /\ \A w \in ActiveProtocols : WF_vars(RunProtocol(w))
  /\ WF_vars(Tick)

\* ------------------------------------------------------------------------
\* Properties
\* ------------------------------------------------------------------------
\* an operator call took effect in this step
OperatorCall == calls' # calls

\* C1 -- Phase barrier: the supervisor enters RUNNING only from PREPARE_PHASE
\* and only in a tick in which the state cell of every participating worker
\* is READY; a worker enters RUNNING only while it sees the supervisor in
\* RUNNING; and while the supervisor is in RUNNING every participant has
\* reached READY (it is READY, or past it in RUNNING or PHASE_END).
C1_BarrierStep ==
  /\ (State[Controller] # "RUNNING" /\ State'[Controller] = "RUNNING")
       => /\ State[Controller] = "PREPARE_PHASE"
          /\ \A w \in ActiveProtocols : State[w] = "READY"
  /\ \A w \in ActiveProtocols :
       (State[w] # "RUNNING" /\ State'[w] = "RUNNING")
         => /\ State[Controller] = "RUNNING"
            /\ \A v \in ActiveProtocols :
                 State[v] \in {"READY", "RUNNING", "PHASE_END"}

C1_ReachedReady ==
  State[Controller] = "RUNNING"
    => \A w \in ActiveProtocols : State[w] \in {"READY", "RUNNING", "PHASE_END"}

C1_PhaseBarrier == [][C1_BarrierStep]_vars /\ []C1_ReachedReady

\* C1 witness: the supervisor runs the second phase and a worker has entered
\* RUNNING for it while the other is still READY
C1_Witness ==
  /\ State[Controller] = "RUNNING"
  /\ Protocol.phase_id = 1
  /\ \E w, v \in ActiveProtocols :
       /\ State[w] = "RUNNING" /\ ran[w] = 1
       /\ State[v] = "READY"

\* C2 -- The supervisor leaves PREPARE_PROTOCOL for PREPARE_PHASE only when
\* every participating worker is in WAIT_FOR_PHASE, and then the phase counter
\* goes from unset to 0; a step that is no operator call and is taken while
\* some participant is not in WAIT_FOR_PHASE leaves the supervisor in
\* PREPARE_PROTOCOL with the phase counter unset.
C2_Step ==
  State[Controller] = "PREPARE_PROTOCOL" =>
    /\ State'[Controller] = "PREPARE_PHASE" =>
         /\ \A w \in ActiveProtocols : State[w] = "WAIT_FOR_PHASE"
         /\ Protocol.phase_id = None
         /\ Protocol'.phase_id = 0
    /\ (~OperatorCall /\ \E w \in ActiveProtocols : State[w] # "WAIT_FOR_PHASE")
         => /\ State'[Controller] = "PREPARE_PROTOCOL"
            /\ Protocol'.phase_id = Protocol.phase_id
            /\ Protocol.phase_id = None
    /\ (~OperatorCall /\ State'[Controller] # "PREPARE_PROTOCOL")
         => State'[Controller] = "PREPARE_PHASE"

C2_PrepareProtocol == [][C2_Step]_vars

\* C2 witness: the supervisor has just entered PREPARE_PHASE with phase 0,
\* all workers still in WAIT_FOR_PHASE
C2_Witness ==
  /\ State[Controller] = "PREPARE_PHASE"
  /\ Protocol.phase_id = 0
  /\ \A w \in ActiveProtocols : State[w] = "WAIT_FOR_PHASE"

\* C3 -- start_protocol refuses unless every participating worker is IDLE: a
\* start_protocol call made while some participant is not IDLE leaves the
\* supervisor state and the protocol control (name, phase info) unchanged.
C3_RefusedStep ==
  ((\E w \in ActiveProtocols : State[w] # "IDLE")
     /\ \E p \in ProtocolPaths, mkdir_ok \in BOOLEAN : StartProtocol(p, mkdir_ok))
    => /\ State'[Controller] = State[Controller]
       /\ Protocol' = Protocol

C3_StartRefusedUnlessAllIdle == [][C3_RefusedStep]_vars

\* C4 -- Every worker re-synchronizes for each phase: when the supervisor is
\* in RUNNING for phase k, every worker's _prepare_phase has run for k, and
\* when the supervisor has ended phase k (PHASE_END by the stop time), every
\* worker has entered RUNNING for k.
C4_ResyncEachPhase ==
  ~aborted =>
    /\ State[Controller] = "RUNNING"
         => \A w \in ActiveProtocols : prepared[w] = Protocol.phase_id
    /\ State[Controller] = "PHASE_END"
         => \A w \in ActiveProtocols : ran[w] = Protocol.phase_id

\* every process is back in IDLE
AllIdle == \A p \in ProcessNames : State[p] = "IDLE"

\* C5 -- Protocol completion: once start_protocol is accepted (supervisor in
\* PREPARE_PROTOCOL) and unless abortProtocol is called, the supervisor
\* reaches PROTOCOL_END, and supervisor and workers are eventually all IDLE.
C5_Completion ==
  /\ (State[Controller] = "PREPARE_PROTOCOL")
       ~> (aborted \/ State[Controller] = "PROTOCOL_END")
  /\ (State[Controller] = "PREPARE_PROTOCOL") ~> (aborted \/ AllIdle)

\* C6 -- Phase order: phase_id runs through 0, 1, .., P-1 in this order (the
\* counter moves from unset to 0 and then by +1, an accepted start_protocol
\* unsets it), the supervisor enters RUNNING once per phase id, phase_id is
\* within 0..P-1 in PREPARE_PHASE, RUNNING and PHASE_END, and a tick in
\* PHASE_END leads to PREPARE_PHASE with the next id when phase_id + 1 < P and
\* to PROTOCOL_END otherwise; a protocol that ends without abort has run all
\* of its P phases.
C6_Inv ==
  LET P == Len(protocol)
      k == Protocol.phase_id
  IN /\ State[Controller] \in {"PREPARE_PHASE", "RUNNING", "PHASE_END"}
          => /\ k \in 0 .. P - 1
             /\ P = Protocol.name
     /\ State[Controller] = "PREPARE_PHASE" => entered = 0 .. k - 1
     /\ State[Controller] \in {"RUNNING", "PHASE_END"} => entered = 0 .. k
     /\ (State[Controller] = "PROTOCOL_END" /\ ~aborted)
          => /\ k = P - 1
             /\ entered = 0 .. P - 1

C6_Step ==
  LET P == Len(protocol)
      k == Protocol.phase_id
  IN /\ (State[Controller] # "RUNNING" /\ State'[Controller] = "RUNNING")
          => /\ Protocol'.phase_id = k
             /\ k \notin entered
     /\ Protocol'.phase_id # k
          => \/ k = None /\ Protocol'.phase_id = 0
             \/ k # None /\ Protocol'.phase_id = k + 1
             \/ OperatorCall /\ Protocol'.phase_id = None
     /\ (State[Controller] = "PHASE_END" /\ ~OperatorCall
           /\ State'[Controller] # "PHASE_END")
          => IF k + 1 < P
             THEN /\ State'[Controller] = "PREPARE_PHASE"
                  /\ Protocol'.phase_id = k + 1
             ELSE /\ State'[Controller] = "PROTOCOL_END"
                  /\ Protocol'.phase_id = k

C6_PhaseOrder == []C6_Inv /\ [][C6_Step]_vars

\* C6 witness: a two-phase protocol has ended without abort after the
\* supervisor ran phases 0 and 1
C6_Witness ==
  /\ State[Controller] = "PROTOCOL_END"
  /\ ~aborted
  /\ Len(protocol) = 2
  /\ entered = {0, 1}
  /\ Protocol.phase_id = 1

\* C7 -- After abortProtocol, under fair scheduling, every participating
\* worker returns to IDLE and the supervisor returns to IDLE with the
\* recording stopped.
C7_AbortRecovers == aborted ~> (AllIdle /\ ~Recording.active)

\* the step is an abortProtocol call
AbortCall == OperatorCall /\ aborted'

\* abortProtocol sets the stop time to now and the supervisor to PROTOCOL_END
C8_AbortStep ==
  AbortCall
    => /\ Protocol' = [Protocol EXCEPT !.phase_stop = now]
       /\ State' = [State EXCEPT ![Controller] = "PROTOCOL_END"]

\* C8 (as claimed) -- abortProtocol sets the stop time to now and the
\* supervisor to PROTOCOL_END, and a worker that was RUNNING at the call has
\* left RUNNING once it has evaluated _run_protocol again.
C8_NextTickInv ==
  \A w \in ActiveProtocols :
    sinceAbort[w] \in {"early", "late"} => State[w] # "RUNNING"

C8_NextTick == [][C8_AbortStep]_vars /\ []C8_NextTickInv

\* C8 (amended) -- abortProtocol sets the stop time to now and the supervisor
\* to PROTOCOL_END; from then on stop <= now, and a worker that was RUNNING at
\* the call stays RUNNING until its first evaluation of _run_protocol at a
\* clock reading later than the call, which moves it to PHASE_END (from where
\* only the cleanup to IDLE follows).
C8_LateTickInv ==
  \A w \in ActiveProtocols :
    /\ sinceAbort[w] # "-"
         => /\ Protocol.phase_stop # None
            /\ Protocol.phase_stop <= now
            /\ State[Controller] \in {"PROTOCOL_END", "IDLE"}
    /\ sinceAbort[w] \in {"pending", "early"} => State[w] = "RUNNING"
    /\ sinceAbort[w] = "late" => State[w] \in {"PHASE_END", "IDLE"}

C8_LateTickStep ==
  \A w \in ActiveProtocols :
    (sinceAbort[w] \in {"pending", "early"} /\ sinceAbort'[w] = "late")
      => State'[w] = "PHASE_END"

C8_AbortThenLateTick ==
  [][C8_AbortStep /\ C8_LateTickStep]_vars /\ []C8_LateTickInv

\* C8 witness: a worker that was RUNNING at the abort ticked once at the clock
\* reading of the call (and stayed RUNNING) and the other one ticked later and
\* is in PHASE_END
C8_Witness ==
  /\ State[Controller] = "PROTOCOL_END"
  /\ \E w, v \in ActiveProtocols :
       /\ sinceAbort[w] = "early" /\ State[w] = "RUNNING"
       /\ sinceAbort[v] = "late" /\ State[v] = "PHASE_END"

\* C9 -- A worker moves from READY to RUNNING only while the supervisor is in
\* RUNNING and now >= start, and the phase_start_time it records is the
\* current time, hence not before the scheduled start.
C9_Step ==
  \A w \in ActiveProtocols :
    (State[w] = "READY" /\ State'[w] = "RUNNING")
      => /\ State[Controller] = "RUNNING"
         /\ Protocol.phase_start # None
         /\ now >= Protocol.phase_start
         /\ phase_start_time'[w] = now
         /\ phase_start_time'[w] >= Protocol'.phase_start

C9_Inv ==
  \A w \in ActiveProtocols :
    (State[w] = "RUNNING" /\ State[Controller] = "RUNNING")
      => /\ phase_start_time[w] >= Protocol.phase_start
         /\ phase_start_time[w] <= now

C9_ReadyToRunning == [][C9_Step]_vars /\ []C9_Inv

\* C9 witness: a worker has entered RUNNING later than the scheduled start
C9_Witness ==
  /\ State[Controller] = "RUNNING"
  /\ \E w \in ActiveProtocols :
       /\ State[w] = "RUNNING"
       /\ ran[w] = Protocol.phase_id
       /\ phase_start_time[w] > Protocol.phase_start

\* C10 -- Phase run: entering RUNNING the supervisor sets start = now + delta
\* and stop = start + duration; start does not change while the supervisor is
\* RUNNING (every worker reads the same start); and as long as start and stop
\* of a phase run are set, start < stop.
C10_Step ==
  /\ (State[Controller] # "RUNNING" /\ State'[Controller] = "RUNNING")
       => /\ Protocol'.phase_start = now + fixed_delay
          /\ Protocol'.phase_stop =
               Protocol'.phase_start + protocol'[Protocol'.phase_id + 1]
  /\ (State[Controller] = "RUNNING" /\ State'[Controller] = "RUNNING")
       => Protocol'.phase_start = Protocol.phase_start

C10_Inv ==
  (Protocol.phase_start # None /\ Protocol.phase_stop # None)
    => Protocol.phase_start < Protocol.phase_stop

C10_PhaseRun == [][C10_Step]_vars /\ []C10_Inv

\* C11 -- The supervisor leaves PROTOCOL_END for IDLE only when every
\* participating worker is in IDLE, and when it does, the recording is not
\* active, the recording folder is cleared and the protocol name is cleared.
C11_Step ==
  (State[Controller] = "PROTOCOL_END" /\ State'[Controller] = "IDLE")
    => /\ \A w \in ActiveProtocols : State[w] = "IDLE" /\ State'[w] = "IDLE"
       /\ ~Recording'.active
       /\ Recording'.folder = 0
       /\ Protocol'.name = NoName

registered_processes == ActiveProtocols

\* mutant of shutdown_state: the recording is not looked at
shutdown_state_without_recording ==
  \A p \in registered_processes : in_state("IDLE", p) \/ in_state("NA", p)

\* the check of Controller._start_shutdown
shutdown_state ==
  /\ \A p \in registered_processes : in_state("IDLE", p) \/ in_state("NA", p)
  /\ ~Recording.active

\* Controller._force_shutdown: set _shutdown, send Shutdown to every process
force_shutdown ==
  /\ ctrl_pc' = "last_main"
  /\ Pipes' = [w \in ActiveProtocols |->
                 IF w \in processes THEN Append(Pipes[w], "shutdown")
                 ELSE Pipes[w]]

\* the controller receives Shutdown: Controller._start_shutdown
StartShutdown ==
  /\ UNCHANGED extvars
  /\ ctrl_pc = "run"
  /\ ~prompted
  /\ IF shutdown_state
     THEN force_shutdown /\ UNCHANGED prompted
     ELSE \* rpc(Gui, prompt_shutdown_confirmation), return
          prompted' = TRUE /\ UNCHANGED <<Pipes, ctrl_pc>>
  /\ UNCHANGED <<progvars, now, histvars, calls, processes>>

\* the operator confirms the prompt: rpc(Controller, _force_shutdown)
ForceShutdown ==
  /\ UNCHANGED extvars
  /\ ctrl_pc = "run"
  /\ prompted
  /\ prompted' = FALSE
  /\ force_shutdown
  /\ UNCHANGED <<progvars, now, histvars, calls, processes>>

\* the operator dismisses the prompt
DeclineShutdown ==
  /\ UNCHANGED extvars
  /\ prompted
  /\ prompted' = FALSE
  /\ UNCHANGED <<progvars, now, histvars, calls, Pipes, processes, ctrl_pc>>

\* A worker tick whose handle_inbox receives Shutdown: _start_shutdown drains
\* the pipe, sets STOPPED and _shutdown; the main() of the same iteration
\* finds no protocol state to act on, and the loop ends.
WorkerShutdown(w) ==
  /\ UNCHANGED extvars
  /\ alive[w]
  /\ ~in_state("STOPPED", w)
  /\ Pipes[w] # <<>>
  /\ Head(Pipes[w]) = "shutdown"
  /\ Pipes' = [Pipes EXCEPT ![w] = <<>>]
  /\ State' = [State EXCEPT ![w] = "STOPPED"]
  /\ UNCHANGED <<Protocol, Recording, protocol, phase_start_time, alive, now,
                 histvars, calls, processes, ctrl_pc, prompted>>

\* mutant of stopped_processes: the state cells are not looked at
stopped_processes_unchecked == processes

\* the processes the wait loop finds STOPPED
stopped_processes == {p \in processes : in_state("STOPPED", p)}

\* One iteration of the wait loop of Controller.start: leave when _processes
\* is empty, else terminate and delete every process found STOPPED.
ControllerWait ==
  /\ UNCHANGED extvars
  /\ ctrl_pc = "wait"
  /\ IF processes = {}
     THEN /\ ctrl_pc' = "exited"
          /\ State' = [State EXCEPT ![Controller] = "STOPPED"]
          /\ UNCHANGED <<processes, alive, Pipes>>
     ELSE /\ processes' = processes \ stopped_processes
          /\ alive' = [w \in ActiveProtocols |->
                         alive[w] /\ w \notin stopped_processes]
          /\ Pipes' = [w \in ActiveProtocols |->
                         IF w \in stopped_processes THEN <<>> ELSE Pipes[w]]
          /\ UNCHANGED <<State, ctrl_pc>>
  /\ UNCHANGED <<Protocol, Recording, protocol, phase_start_time, now,
                 histvars, calls, prompted>>

ShutdownNext ==
  \/ \E p \in ProtocolPaths, mkdir_ok \in BOOLEAN : StartProtocol(p, mkdir_ok)
  \/ AbortProtocol
  \/ ControllerMain
  \/ \E w \in ActiveProtocols : RunProtocol(w)
  \/ Tick
  \/ StartShutdown
  \/ ForceShutdown
  \/ DeclineShutdown
  \/ \E w \in ActiveProtocols : WorkerShutdown(w)
  \/ ControllerWait

ShutdownSpec == Init /\ [][ShutdownNext]_vars

\* fair scheduling: every process keeps running its loop, the clock advances
FairShutdownSpec ==
  /\ ShutdownSpec
  /\ WF_vars(ControllerMain)
  /\ WF_vars(ControllerWait)
  /\ \A w \in ActiveProtocols : WF_vars(RunProtocol(w))
  /\ \A w \in ActiveProtocols : WF_vars(WorkerShutdown(w))
  /\ WF_vars(Tick)

\* the step sends Shutdown to at least one worker
ShutdownBroadcast == \E w \in ActiveProtocols : Len(Pipes'[w]) > Len(Pipes[w])

\* C12 -- On a shutdown request the supervisor broadcasts Shutdown only if
\* every registered worker is in IDLE or NA and the recording is not active;
\* otherwise it sends no Shutdown to any worker, keeps running, and asks the
\* UI for confirmation.
C12_Step ==
  /\ (ShutdownBroadcast /\ ~prompted)
       => /\ \A p \in registered_processes : State[p] \in {"IDLE", "NA"}
          /\ ~Recording.active
          /\ \A p \in processes : Pipes'[p] = Append(Pipes[p], "shutdown")
  /\ (~prompted /\ prompted')
       => /\ \/ \E p \in registered_processes : State[p] \notin {"IDLE", "NA"}
             \/ Recording.active
          /\ Pipes' = Pipes
          /\ ctrl_pc = "run" /\ ctrl_pc' = "run"
          /\ State' = State

C12_ShutdownRequest == [][C12_Step]_vars

\* C12 witness: a request was refused while all workers were IDLE and the
\* recording was active
C12_Witness ==
  /\ prompted
  /\ Recording.active
  /\ \A p \in registered_processes : State[p] = "IDLE"

\* C12 witness of the other case: the Shutdown was broadcast on request
C12_BroadcastReached ==
  /\ ctrl_pc = "last_main"
  /\ \A p \in registered_processes : Pipes[p] = <<"shutdown">>
  /\ calls > 0

\* C13 -- Graceful shutdown (safety): after the Shutdown broadcast the
\* supervisor exits only once every spawned worker has confirmed its shutdown
\* (state STOPPED); no worker's process handle is terminated or removed
\* before that worker's confirmation.
C13_Step ==
  /\ (State[Controller] # "STOPPED" /\ State'[Controller] = "STOPPED")
       => /\ ctrl_pc = "wait"
          /\ \A w \in registered_processes : State[w] = "STOPPED"
  /\ \A w \in processes \ processes' : State[w] = "STOPPED"
  /\ \A w \in ActiveProtocols :
       (w \in processes' /\ ~in_state("STOPPED", w))
         => (alive'[w] = alive[w] \/ run_protocol_raises(w))

C13_Inv ==
  /\ ctrl_pc = "exited"
       => /\ processes = {}
          /\ \A w \in registered_processes : State[w] = "STOPPED"
  /\ ctrl_pc \in {"run", "last_main"} => processes = registered_processes

C13_GracefulShutdown == [][C13_Step]_vars /\ []C13_Inv

\* C13 witness: the supervisor has exited after every worker stopped, one of
\* them in the middle of a protocol
C13_Witness ==
  /\ ctrl_pc = "exited"
  /\ State[Controller] = "STOPPED"
  /\ Protocol.name \in ProtocolPaths
  /\ \A w \in registered_processes : State[w] = "STOPPED"

\* a worker's handle is removed while the other worker has not confirmed yet
C13_OneRemoved ==
  /\ ctrl_pc = "wait"
  /\ \E w, v \in registered_processes :
       w \notin processes /\ v \in processes /\ ~in_state("STOPPED", v)

\* C14 -- Graceful shutdown (liveness): after the Shutdown broadcast the
\* supervisor eventually exits, whatever state the workers are in.
C14_ShutdownCompletes == (ctrl_pc # "run") ~> (ctrl_pc = "exited")

\* ------------------------------------------------------------------------
\* Message variant: actions
\* ------------------------------------------------------------------------
\* number of messages worker x has sent
sent_count(x) == Len(sent[x][Controller]) + Len(sent[x][NoProcess])
                 + Len(sent[x]["GUI"]) + Len(sent[x]["Display"])
                 + Len(sent[x]["Camera"])

\* number of messages sent by all workers
total_sent == sent_count("GUI") + sent_count("Display") + sent_count("Camera")

\* mutant of queue_put: the message is put at the front
queue_put_front(q, m) == <<m>> \o q

\* mp.Queue.put
queue_put(q, m) == Append(q, m)

\* what goes through a pipe: [signal, args, kwargs]
pipe_message(signal, args) == [signal |-> signal, args |-> args]

\* mutant of forward_receiver: the message goes back to its sender
forward_receiver_sender(m) == m.sender

\* the process whose pipe a forwarded message is sent through
forward_receiver(m) == m.receiver

\* BaseProcess.send of a worker: [self.name, processName, [signal, args, kwargs]]
\* is put on the fan-in queue. The arguments are the sender's name and the
\* number of the message among those the sender sent.
WorkerSend(x, r, signal) ==
  /\ running[x]
  /\ total_sent < MaxSends
  /\ r # x
  /\ signal = "RPC" \/ (signal = "Shutdown" /\ r = Controller /\ x = "GUI")
  /\ LET args == <<x, sent_count(x) + 1>>
     IN /\ ctrlQueue' = queue_put(ctrlQueue,
                          [sender |-> x, receiver |-> r,
                           signal |-> signal, args |-> args])
        /\ sent' = [sent EXCEPT ![x][r] = Append(@, pipe_message(signal, args))]
  /\ UNCHANGED <<inPipe, running, procs, ctrl_loop, taken, handled, warned>>
  /\ UNCHANGED <<protovars, rpcvars, ringvars, auxvars>>

\* One iteration of the loop of BaseProcess.run whose _handleCommunication
\* finds a message. On Shutdown, _startShutdown handles all that is left in
\* the pipe and ends the loop, and run() sends ConfirmShutdown.
WorkerReceive(y) ==
  /\ running[y]
  /\ inPipe[y] # <<>>
  /\ IF Head(inPipe[y]).signal = "Shutdown"
     THEN /\ taken' = [taken EXCEPT ![y] = @ \o inPipe[y]]
          /\ inPipe' = [inPipe EXCEPT ![y] = <<>>]
          /\ running' = [running EXCEPT ![y] = FALSE]
          /\ ctrlQueue' = queue_put(ctrlQueue,
                            [sender |-> y, receiver |-> Controller,
                             signal |-> "ConfirmShutdown", args |-> <<>>])
     ELSE /\ taken' = [taken EXCEPT ![y] = Append(@, Head(inPipe[y]))]
          /\ inPipe' = [inPipe EXCEPT ![y] = Tail(@)]
          /\ UNCHANGED <<running, ctrlQueue>>
  /\ UNCHANGED <<procs, ctrl_loop, sent, handled, warned>>
  /\ UNCHANGED <<protovars, rpcvars, ringvars, auxvars>>

\* One iteration of the main loop of Controller.run: take a message from the
\* queue; handle it if it is for the controller (Shutdown: _startShutdown
\* sends Shutdown to every process), else forward it; a forward that raises
\* is logged.
ControllerRun ==
  /\ ctrl_loop = "run"
  /\ ctrlQueue # <<>>
  /\ LET m == Head(ctrlQueue)
     IN /\ ctrlQueue' = Tail(ctrlQueue)
        /\ IF m.receiver = Controller
           THEN /\ handled' = Append(handled, m)
                /\ warned' = warned
                /\ IF m.signal = "Shutdown"
                   THEN /\ ctrl_loop' = "wait"
                        /\ inPipe' = [w \in MsgWorkers |->
                                        IF w \in procs
                                        THEN Append(inPipe[w],
                                               pipe_message("Shutdown", <<>>))
                                        ELSE inPipe[w]]
                   ELSE UNCHANGED <<ctrl_loop, inPipe>>
           ELSE /\ UNCHANGED <<handled, ctrl_loop>>
                /\ IF forward_receiver(m) \in procs
                   THEN /\ inPipe' = [inPipe EXCEPT ![forward_receiver(m)] =
                                        Append(@, pipe_message(m.signal, m.args))]
                        /\ warned' = warned
                   ELSE /\ warned' = warned + 1
                        /\ UNCHANGED inPipe
  /\ UNCHANGED <<running, procs, sent, taken>>
  /\ UNCHANGED <<protovars, rpcvars, ringvars, auxvars>>

\* One iteration of the shutdown loop of Controller.run that finds the queue
\* not empty: on ConfirmShutdown the sender's process and pipe are deleted;
\* any other message is dropped; the loop ends when none is left.
ControllerConfirm ==
  /\ ctrl_loop = "wait"
  /\ ctrlQueue # <<>>
  /\ LET m == Head(ctrlQueue)
         left == IF m.signal = "ConfirmShutdown"
                 THEN procs \ {m.sender} ELSE procs
     IN /\ ctrlQueue' = Tail(ctrlQueue)
        /\ procs' = left
        /\ ctrl_loop' = IF left = {} THEN "done" ELSE "wait"
  /\ UNCHANGED <<inPipe, running, sent, taken, handled, warned>>
  /\ UNCHANGED <<protovars, rpcvars, ringvars, auxvars>>

MsgNext ==
  \/ \E x \in MsgWorkers, r \in Receivers, signal \in Signals :
       WorkerSend(x, r, signal)
  \/ \E y \in MsgWorkers : WorkerReceive(y)
  \/ ControllerRun
  \/ ControllerConfirm

MsgSpec == Init /\ [][MsgNext]_vars

MsgTypeOK ==
  /\ ctrl_loop \in {"run", "wait", "done"}
  /\ procs \subseteq MsgWorkers
  /\ running \in [MsgWorkers -> BOOLEAN]
  /\ warned \in Nat
  /\ \A i \in 1 .. Len(ctrlQueue) :
       /\ ctrlQueue[i].sender \in MsgWorkers
       /\ ctrlQueue[i].receiver \in Receivers
       /\ ctrlQueue[i].signal \in Signals
  /\ \A w \in MsgWorkers : \A i \in 1 .. Len(inPipe[w]) :
       inPipe[w][i].signal \in Signals

\* a is a prefix of b
IsPrefix(a, b) == Len(a) <= Len(b) /\ SubSeq(b, 1, Len(a)) = a

\* the messages of seq that worker x sent (its name is their first argument)
FromSender(seq, x) ==
  SelectSeq(seq, LAMBDA m : m.args # <<>> /\ m.args[1] = x)

\* the messages of the fan-in queue from x to r, as they go through a pipe
Queued(x, r) ==
  LET mine == SelectSeq(ctrlQueue,
                        LAMBDA m : m.sender = x /\ m.receiver = r
                                   /\ m.signal # "ConfirmShutdown")
  IN [i \in 1 .. Len(mine) |-> pipe_message(mine[i].signal, mine[i].args)]

\* the messages of handled, as they would go through a pipe
HandledFrom(x) ==
  LET mine == SelectSeq(handled, LAMBDA m : m.sender = x)
  IN [i \in 1 .. Len(mine) |-> pipe_message(mine[i].signal, mine[i].args)]

\* C15 -- RPC FIFO: for any sender/receiver pair, including worker-to-worker
\* messages forwarded by the supervisor, the sequence of messages the
\* receiver takes from its channel is, in every interleaving with other
\* senders, the sequence the sender sent: at any time a prefix of it, followed
\* in order by what is in the receiver's pipe and in the fan-in queue.
C15_Inv ==
  /\ \A x \in MsgWorkers : \A y \in MsgWorkers \ {x} :
       /\ IsPrefix(FromSender(taken[y], x), sent[x][y])
       /\ IsPrefix(FromSender(taken[y], x) \o FromSender(inPipe[y], x),
                   sent[x][y])
       /\ ctrl_loop = "run"
            => FromSender(taken[y], x) \o FromSender(inPipe[y], x)
                 \o Queued(x, y) = sent[x][y]
  /\ \A x \in MsgWorkers :
       /\ IsPrefix(HandledFrom(x), sent[x][Controller])
       /\ ctrl_loop = "run"
            => HandledFrom(x) \o Queued(x, Controller) = sent[x][Controller]

C15_RpcFifo == []C15_Inv

\* C15 witness: Display has taken two messages of GUI in the order sent, with
\* a message of Camera taken between them
C15_Witness ==
  /\ Len(sent["GUI"]["Display"]) = 2
  /\ FromSender(taken["Display"], "GUI") = sent["GUI"]["Display"]
  /\ Len(taken["Display"]) = 3
  /\ taken["Display"][2].args[1] = "Camera"

\* the step is an iteration of the controller's main loop
ControllerTakes ==
  ctrl_loop = "run" /\ ctrlQueue # <<>> /\ ctrlQueue' = Tail(ctrlQueue)

\* C16 -- Routing: a message that worker X addresses to worker Y is taken
\* from the fan-in queue and forwarded once to Y's channel, with signal and
\* arguments unchanged, and to no other worker; a message addressed to the
\* supervisor is handled by the supervisor itself and is not forwarded.
C16_Step ==
  ControllerTakes =>
    LET m == Head(ctrlQueue)
    IN /\ m.receiver \in MsgWorkers
            => /\ inPipe'[m.receiver] =
                    Append(inPipe[m.receiver],
                           [signal |-> m.signal, args |-> m.args])
               /\ \A w \in MsgWorkers \ {m.receiver} : inPipe'[w] = inPipe[w]
               /\ handled' = handled
       /\ (m.receiver = Controller /\ m.signal = "RPC")
            => /\ inPipe' = inPipe
               /\ handled' = Append(handled, m)
       /\ (m.receiver = Controller /\ m.signal = "Shutdown")
            => /\ handled' = Append(handled, m)
               /\ \A w \in MsgWorkers :
                    inPipe'[w] = Append(inPipe[w],
                                        [signal |-> "Shutdown", args |-> <<>>])

\* copies of message n of x that worker y holds or has taken
C16_Copies(x, y, n) ==
  Len(SelectSeq(taken[y] \o inPipe[y], LAMBDA m : m.args = <<x, n>>))

C16_Inv ==
  \A x \in MsgWorkers : \A y \in MsgWorkers : \A n \in 1 .. MaxSends :
    /\ C16_Copies(x, y, n) <= 1
    /\ C16_Copies(x, y, n) = 1
         => \E i \in 1 .. Len(sent[x][y]) : sent[x][y][i].args = <<x, n>>

execute_rpc(fun_path) ==
  IF fun_path[1] = ClassName
  THEN IF Len(fun_path) < 2
       THEN \* fun_path[1] of a one-element list: IndexError, before the try
            [log |-> <<>>, ran |-> <<>>, raised |-> TRUE, cell |-> rpc_cell]
       ELSE IF fun_path[2] \notin Methods
       THEN \* getattr raises AttributeError inside the try
            [log |-> <<"DEBUG", "WARNING">>, ran |-> <<>>, raised |-> FALSE,
             cell |-> rpc_cell]
       ELSE IF fun_path \in Raising
       THEN [log |-> <<"DEBUG", "WARNING">>, ran |-> <<fun_path>>,
             raised |-> FALSE, cell |-> "RUNNING"]
       ELSE [log |-> <<"DEBUG">>, ran |-> <<fun_path>>, raised |-> FALSE,
             cell |-> "RUNNING"]
  ELSE IF fun_path \in registered_callbacks
  THEN IF fun_path \in Raising
       THEN [log |-> <<"DEBUG", "WARNING">>, ran |-> <<fun_path>>,
             raised |-> FALSE, cell |-> rpc_cell]
       ELSE [log |-> <<"DEBUG">>, ran |-> <<fun_path>>, raised |-> FALSE,
             cell |-> rpc_cell]
  ELSE [log |-> <<"WARNING">>, ran |-> <<>>, raised |-> FALSE,
        cell |-> rpc_cell]

\* handle_inbox receives an RPC message: _execute_rpc(fun, ...)
ExecuteRpc(fun_path) ==
  /\ rpc_running
  /\ Len(rpc_calls) < MaxRpc
  /\ LET r == execute_rpc(fun_path)
     IN /\ rpc_log' = rpc_log \o r.log
        /\ rpc_ran' = rpc_ran \o r.ran
        /\ rpc_cell' = r.cell
        /\ rpc_running' = ~r.raised
        /\ rpc_calls' = Append(rpc_calls,
                          [fun |-> fun_path,
                           table |-> registered_callbacks,
                           log |-> r.log, ran |-> r.ran,
                           raised |-> r.raised,
                           cell |-> <<rpc_cell, r.cell>>])
  /\ UNCHANGED registered_callbacks
  /\ UNCHANGED <<protovars, msgvars, ringvars, auxvars>>

\* AbstractProcess.register_rpc_callback, called for an exposed method
RegisterRpcCallback(fun_path) ==
  /\ rpc_running
  /\ Len(rpc_log) < 2 * MaxRpc
  /\ IF fun_path \notin registered_callbacks
     THEN /\ registered_callbacks' = registered_callbacks \cup {fun_path}
          /\ UNCHANGED rpc_log
     ELSE /\ rpc_log' = Append(rpc_log, "WARNING")
          /\ UNCHANGED registered_callbacks
  /\ UNCHANGED <<rpc_cell, rpc_running, rpc_ran, rpc_calls>>
  /\ UNCHANGED <<protovars, msgvars, ringvars, auxvars>>

RpcNext ==
  \/ \E fun_path \in FunNames : ExecuteRpc(fun_path)
  \/ \E fun_path \in Exposed : RegisterRpcCallback(fun_path)

RpcSpec == Init /\ [][RpcNext]_vars

\* the name resolves to a method of the process class or to a registered
\* callback
C17_Resolves(fun_path, table) ==
  \/ Len(fun_path) = 2 /\ fun_path[1] = ClassName /\ fun_path[2] \in Methods
  \/ fun_path \in table

\* C17 -- RPC dispatch errors: an RPC whose name resolves neither to a method
\* of the receiving process class nor to a registered callback is logged as a
\* warning and discarded (no callable runs, the state cell is unchanged, the
\* loop continues); an exception raised by a resolved callable is logged and
\* never leaves the dispatch.
C17_Inv ==
  /\ rpc_running
  /\ \A i \in 1 .. Len(rpc_calls) :
       LET c == rpc_calls[i]
       IN /\ ~c.raised
          /\ ~C17_Resolves(c.fun, c.table)
               => /\ c.ran = <<>>
                  /\ c.log # <<>> /\ c.log[Len(c.log)] = "WARNING"
                  /\ c.cell[1] = c.cell[2]
          /\ (c.ran # <<>> /\ c.ran[1] \in Raising)
               => c.log[Len(c.log)] = "WARNING"

C17_RpcDispatchErrors == []C17_Inv

\* ------------------------------------------------------------------------
\* Ring buffer: producer (Routines.update) and reader (RingBuffer.read)
\* ------------------------------------------------------------------------
\* RingBuffer.index()
index == currentIdx

\* mutant of write_slot: the slot after the current one
write_slot_next(i) == (i + 1) % length

\* the slot RingBuffer.__setattr__ writes
write_slot(i) == i % length

\* RingBuffer.next
next_index(i) == i + 1

\* mutant of item: a negative index does not count from the end
item_no_wrap(i) == IF i < 0 THEN data[0] ELSE data[i]

\* Python list indexing with a possibly negative index
item(i) == IF i < 0 THEN data[length + i] ELSE data[i]

\* Python's clamping of a slice bound
bound_of(i) ==
  IF i < 0 THEN (IF length + i < 0 THEN 0 ELSE length + i)
  ELSE (IF i > length THEN length ELSE i)

\* Python list slicing data[a:b]
slice(a, b) ==
  LET lo == bound_of(a)
      hi == bound_of(b)
  IN IF hi <= lo THEN <<>> ELSE [k \in 1 .. hi - lo |-> data[lo + k - 1]]

\* range(a, b)
range(a, b) == IF b <= a THEN <<>> ELSE [k \in 1 .. b - a |-> a + k - 1]

\* Routines.update, first part: buffer.time = t and the routine's update set
\* the attribute of the current slot
ProducerWrite ==
  /\ ~written
  /\ index < MaxIndex
  /\ data' = [data EXCEPT ![write_slot(index)] = val(index)]
  /\ written' = TRUE
  /\ UNCHANGED <<currentIdx, rd, c_next, c_received, c_overrun>>
  /\ UNCHANGED <<protovars, msgvars, rpcvars, auxvars>>

\* Routines.update, last part: buffer.next()
ProducerNext ==
  /\ written
  /\ currentIdx' = next_index(currentIdx)
  /\ written' = FALSE
  /\ c_overrun' = (c_overrun \/ currentIdx' - c_next > length)
  /\ UNCHANGED <<data, rd, c_next, c_received>>
  /\ UNCHANGED <<protovars, msgvars, rpcvars, auxvars>>

\* read(attr_name, last=c) up to its first use of the index:
\* list_idx = index() % length()
ReadLast(c) ==
  /\ rd.pc = "idle"
  /\ rd' = [ReadIdle EXCEPT !.pc = "branch", !.last = c,
                            !.seen = index, !.list_idx = index % length]
  /\ UNCHANGED <<currentIdx, data, written, c_next, c_received, c_overrun>>
  /\ UNCHANGED <<protovars, msgvars, rpcvars, auxvars>>

\* read(attr_name, last_idx=c_next) of the consumer up to its first use of
\* the index: last = index() - last_idx
ReadFrom ==
  /\ rd.pc = "idle"
  /\ rd' = [ReadIdle EXCEPT !.pc = "list_idx", !.consumer = TRUE,
                            !.last = index - c_next]
  /\ UNCHANGED <<currentIdx, data, written, c_next, c_received, c_overrun>>
  /\ UNCHANGED <<protovars, msgvars, rpcvars, auxvars>>

\* list_idx = index() % length()
ReadListIdx ==
  /\ rd.pc = "list_idx"
  /\ rd' = [rd EXCEPT !.pc = "branch", !.seen = index,
                      !.list_idx = index % length]
  /\ UNCHANGED <<currentIdx, data, written, c_next, c_received, c_overrun>>
  /\ UNCHANGED <<protovars, msgvars, rpcvars, auxvars>>

\* the branches on last: idcs = index() - 1 for one record; the exception or
\* the first operand of range(index() - last, index()) for several; the
\* warning otherwise
ReadBranch ==
  /\ rd.pc = "branch"
  /\ rd' = IF rd.last = 1
           THEN [rd EXCEPT !.pc = "copy", !.idcs = <<index - 1>>]
           ELSE IF rd.last > 1
           THEN IF rd.last > length
                THEN [rd EXCEPT !.pc = "raised"]
                ELSE [rd EXCEPT !.pc = "hi", !.lo = index - rd.last]
           ELSE [rd EXCEPT !.pc = "none"]
  /\ UNCHANGED <<currentIdx, data, written, c_next, c_received, c_overrun>>
  /\ UNCHANGED <<protovars, msgvars, rpcvars, auxvars>>

\* the second operand of range(index() - last, index())
ReadHi ==
  /\ rd.pc = "hi"
  /\ rd' = [rd EXCEPT !.pc = "copy", !.idcs = range(rd.lo, index)]
  /\ UNCHANGED <<currentIdx, data, written, c_next, c_received, c_overrun>>
  /\ UNCHANGED <<protovars, msgvars, rpcvars, auxvars>>

\* RingBuffer._read: one record, one slice, or the first of two slices
ReadCopy ==
  /\ rd.pc = "copy"
  /\ LET idx_start == rd.list_idx - rd.last
     IN rd' = IF rd.last = 1
              THEN [rd EXCEPT !.pc = "done",
                              !.values = <<item(rd.list_idx - 1)>>]
              ELSE IF idx_start >= 0
              THEN [rd EXCEPT !.pc = "done",
                              !.values = slice(idx_start, rd.list_idx)]
              ELSE [rd EXCEPT !.pc = "copy2",
                              !.values = slice(idx_start, length)]
  /\ UNCHANGED <<currentIdx, data, written, c_next, c_received, c_overrun>>
  /\ UNCHANGED <<protovars, msgvars, rpcvars, auxvars>>

\* RingBuffer._read: the second slice, data[:idx_end]
ReadCopy2 ==
  /\ rd.pc = "copy2"
  /\ rd' = [rd EXCEPT !.pc = "done",
                      !.values = rd.values \o slice(0, rd.list_idx)]
  /\ UNCHANGED <<currentIdx, data, written, c_next, c_received, c_overrun>>
  /\ UNCHANGED <<protovars, msgvars, rpcvars, auxvars>>

\* read() returns (or raises); the consumer appends the indices it was
\* handed and continues after the last of them
ReadReturn ==
  /\ rd.pc \in {"done", "none", "raised"}
  /\ rd' = ReadIdle
  /\ IF rd.consumer /\ rd.pc = "done"
     THEN /\ c_received' = c_received \o rd.idcs
          /\ c_next' = rd.idcs[Len(rd.idcs)] + 1
     ELSE UNCHANGED <<c_received, c_next>>
  /\ UNCHANGED <<currentIdx, data, written, c_overrun>>
  /\ UNCHANGED <<protovars, msgvars, rpcvars, auxvars>>

RingNext ==
  \/ ProducerWrite
  \/ ProducerNext
  \/ \E c \in 1 .. length : ReadLast(c)
  \/ ReadFrom
  \/ ReadListIdx
  \/ ReadBranch
  \/ ReadHi
  \/ ReadCopy
  \/ ReadCopy2
  \/ ReadReturn

RingSpec == Init /\ [][RingNext]_vars

RingTypeOK ==
  /\ currentIdx \in 0 .. MaxIndex
  /\ data \in [0 .. length - 1 -> {Empty} \cup (0 .. MaxIndex)]
  /\ written \in BOOLEAN
  /\ rd.pc \in {"idle", "list_idx", "branch", "hi", "copy", "copy2", "done",
                "none", "raised"}
  /\ c_next \in 0 .. MaxIndex

\* C18 -- Monotone indices: the published write index advances by exactly 1
\* with each producer update, never skipping or repeating a value, and the
\* entry for index w is written to slot w mod N before w is incremented.
C18_Step ==
  currentIdx' # currentIdx
    => /\ currentIdx' = currentIdx + 1
       /\ data[currentIdx % length] = val(currentIdx)
       /\ data' = data

C18_Inv ==
  \A i \in 0 .. MaxIndex :
    (i < currentIdx /\ i >= currentIdx + (IF written THEN 1 ELSE 0) - length)
      => data[i % length] = val(i)

C18_MonotoneIndices == [][C18_Step]_vars /\ []C18_Inv

\* C18 witness: the index was published after the ring wrapped around
C18_Witness ==
  /\ currentIdx = length + 2
  /\ ~written
  /\ data[(length + 1) % length] = val(length + 1)

\* C19 -- Lock-free read validity: a read never hands back a value taken from
\* a slot that was overwritten, or was being written, during the read: every
\* value a completed read returns is the entry that the slot held for the
\* index the reader observed (slot (seen - last + j - 1) mod N holds the entry
\* of index seen - last + j - 1), also for a read of the last N entries.
C19_Inv ==
  rd.pc = "done"
    => \A j \in 1 .. Len(rd.values) :
         LET k == rd.seen - rd.last + j - 1
         IN k >= 0 => rd.values[j] = val(k)

C19_ReadValidity == []C19_Inv

\* C20 -- No loss within window: a consumer that repeatedly reads from its
\* last read index, with at most N samples produced between two of its reads,
\* receives every produced index exactly once and in increasing order, also
\* when the producer advances the write index while a read is in progress.
C20_Inv ==
  ~c_overrun
    => /\ c_received = range(0, Len(c_received))
       /\ c_next = Len(c_received)
       /\ c_next <= currentIdx

C20_NoLoss == []C20_Inv

\* C21 -- Loss on overflow: a consumer read whose window is older than the
\* buffer holds (more than N entries between its last read index and the
\* write index) does not fail; it returns the last N entries.
C21_Inv ==
  (rd.consumer /\ rd.last > length /\ rd.pc \notin {"list_idx", "branch"})
    => /\ rd.pc # "raised"
       /\ (rd.pc = "done" => Len(rd.values) = length)

C21_LossOnOverflow == []C21_Inv

\* ------------------------------------------------------------------------
\* Trigger (src/vxpy/core/event.py): process() reads the new entries of the
\* attribute and calls the callbacks for the entries the condition marks
\* ------------------------------------------------------------------------
\* Attribute.index: the number of entries written
attribute_index == Len(trig_data)

\* Attribute.read(from_idx): the indices from_idx .. index - 1 that exist
attribute_read(from_idx) ==
  range(IF from_idx < 0 THEN 0 ELSE from_idx, attribute_index)

\* the values of the entries with the given indices
values_of(indices) == [k \in 1 .. Len(indices) |-> trig_data[indices[k] + 1]]

\* what a condition returns when nothing is to be fired
NoInstances == [result |-> FALSE, instances |-> <<>>]

\* the result of a condition for the mask it computed
mask_result(results) ==
  IF \E k \in 1 .. Len(results) : results[k]
  THEN [result |-> TRUE, instances |-> results]
  ELSE NoInstances

\* OnTrigger.condition
OnTrigger_condition(d) ==
  IF Len(d) < 2 THEN NoInstances
  ELSE mask_result([k \in 1 .. Len(d) |-> d[k] # 0])

\* RisingEdgeTrigger.condition: np.diff(data) > 0 with False appended
RisingEdgeTrigger_condition(d) ==
  IF Len(d) < 2 THEN NoInstances
  ELSE mask_result([k \in 1 .. Len(d) |-> k < Len(d) /\ d[k + 1] - d[k] > 0])

\* FallingEdgeTrigger.condition: np.diff(data) < 0 with False appended
FallingEdgeTrigger_condition(d) ==
  IF Len(d) < 2 THEN NoInstances
  ELSE mask_result([k \in 1 .. Len(d) |-> k < Len(d) /\ d[k + 1] - d[k] < 0])

\* self.condition(data) of a trigger of the given class
condition(kind, d) ==
  CASE kind = "OnTrigger" -> OnTrigger_condition(d)
    [] kind = "RisingEdgeTrigger" -> RisingEdgeTrigger_condition(d)
    [] kind = "FallingEdgeTrigger" -> FallingEdgeTrigger_condition(d)

\* np.where(instances)[0]: the positions marked, counted from 0, in order
RECURSIVE where(_)
where(instances) ==
  IF instances = <<>> THEN <<>>
  ELSE LET n == Len(instances)
           front == where(SubSeq(instances, 1, n - 1))
       IN IF instances[n] THEN Append(front, n - 1) ELSE front

\* mutant of fired_indices: entries the trigger has processed are left out
fired_indices_unprocessed(kind, indices) ==
  LET c == condition(kind, values_of(indices))
      w == where(c.instances)
  IN IF c.result
     THEN {indices[w[k] + 1] : k \in 1 .. Len(w)} \ (0 .. trig_last - 1)
     ELSE {}

\* the indices for which process() calls a callback when it has read the
\* entries with the given indices
fired_indices(kind, indices) ==
  LET c == condition(kind, values_of(indices))
      w == where(c.instances)
  IN IF c.result THEN {indices[w[k] + 1] : k \in 1 .. Len(w)} ELSE {}

\* a routine writes one entry to the attribute
TrigWrite(v) ==
  /\ attribute_index < MaxSamples
  /\ trig_data' = Append(trig_data, v)
  /\ UNCHANGED <<trig_kind, trig_last, trig_active, fired, trig_start,
                 trig_eval>>
  /\ UNCHANGED <<protovars, msgvars, rpcvars, ringvars, recvars, io_setup,
                 tickvars, latevars>>

\* Trigger.__init__
TrigCreate(kind) ==
  /\ trig_kind = NoTrigger
  /\ trig_kind' = kind
  /\ trig_last' = attribute_index - 1
  /\ trig_start' = attribute_index - 1
  /\ trig_active' = FALSE
  /\ UNCHANGED <<trig_data, fired, trig_eval>>
  /\ UNCHANGED <<protovars, msgvars, rpcvars, ringvars, recvars, io_setup,
                 tickvars, latevars>>

\* Trigger.set_active
set_active(active) ==
  /\ trig_kind # NoTrigger
  /\ trig_active' = active
  /\ UNCHANGED <<trig_data, trig_kind, trig_last, fired, trig_start,
                 trig_eval>>
  /\ UNCHANGED <<protovars, msgvars, rpcvars, ringvars, recvars, io_setup,
                 tickvars, latevars>>

may_process_always(active) == TRUE

\* Trigger.process returns at once unless the trigger is active
may_process(active) == active

\* Trigger.process
process ==
  /\ trig_kind # NoTrigger
  /\ may_process(trig_active)
  /\ LET indices == attribute_read(trig_last)
         d == values_of(indices)
         c == condition(trig_kind, d)
         w == where(c.instances)
     IN /\ Len(indices) # 0
        /\ trig_last' = indices[Len(indices)] + 1
        /\ fired' = IF c.result
                    THEN fired \o [k \in 1 .. Len(w) |->
                                     <<indices[w[k] + 1], d[w[k] + 1]>>]
                    ELSE fired
  /\ UNCHANGED <<trig_data, trig_kind, trig_active, trig_start, trig_eval>>
  /\ UNCHANGED <<protovars, msgvars, rpcvars, ringvars, recvars, io_setup,
                 tickvars, latevars>>

\* the condition of the trigger is evaluated over the entries a .. b - 1; the
\* first such evaluation and the indices it marks are remembered
TrigEvaluate(a, b) ==
  /\ trig_kind # NoTrigger
  /\ trig_eval = NoEval
  /\ trig_eval' = [kind |-> trig_kind, a |-> a, b |-> b,
                   fired |-> fired_indices(trig_kind, range(a, b))]
  /\ UNCHANGED <<trig_data, trig_kind, trig_last, trig_active, fired,
                 trig_start>>
  /\ UNCHANGED <<protovars, msgvars, rpcvars, ringvars, recvars, io_setup,
                 tickvars, latevars>>

TrigNext ==
  \/ \E v \in SampleValues : TrigWrite(v)
  \/ \E kind \in TriggerKinds : TrigCreate(kind)
  \/ \E active \in BOOLEAN : set_active(active)
  \/ process

TrigSpec == Init /\ [][TrigNext]_vars

\* trigger processing together with evaluations of its condition over
\* arbitrary ranges of the entries written
CondNext ==
  \/ TrigNext
  \/ \E a \in 0 .. MaxSamples, b \in 0 .. MaxSamples :
       a <= b /\ b <= attribute_index /\ TrigEvaluate(a, b)

CondSpec == Init /\ [][CondNext]_vars

TrigTypeOK ==
  /\ trig_data \in Seq(SampleValues)
  /\ Len(trig_data) <= MaxSamples
  /\ trig_kind \in TriggerKinds \cup {NoTrigger}
  /\ trig_last \in -1 .. MaxSamples
  /\ trig_active \in BOOLEAN
  /\ \A k \in 1 .. Len(fired) : fired[k][1] \in 0 .. MaxSamples - 1

\* C22 -- Rising-edge trigger: once a RisingEdge trigger has processed all
\* entries written, its callback was invoked exactly once for every index
\* i >= 1 (within the entries the trigger reads) whose value is greater than
\* the value at i - 1, with that index and its value, in increasing order,
\* and for no other index, however process() interleaves with the writes.
C22_Expected ==
  LET idx == {i \in 1 .. attribute_index - 1 :
                /\ i - 1 >= trig_start
                /\ trig_data[i + 1] > trig_data[i]}
      RECURSIVE sorted(_)
      sorted(S) == IF S = {} THEN <<>>
                   ELSE LET m == CHOOSE x \in S : \A y \in S : y <= x
                        IN Append(sorted(S \ {m}), <<m, trig_data[m + 1]>>)
  IN sorted(idx)

C22_Inv ==
  (trig_kind = "RisingEdgeTrigger" /\ trig_last = attribute_index)
    => fired = C22_Expected

C22_RisingEdge == []C22_Inv

\* C23 -- Trigger idempotence: evaluating the condition of a trigger again
\* over a range of the attribute gives the same set of fired indices as an
\* earlier evaluation over that range, whatever was written, processed or
\* evaluated in between.
C23_Inv ==
  trig_eval # NoEval
    => fired_indices(trig_eval.kind, range(trig_eval.a, trig_eval.b))
         = trig_eval.fired

CompressionMethods == {None, Gzip}

\* Controller.set_enable_recording
set_enable_recording(rec, newstate) == [rec EXCEPT !.enabled = newstate]

\* Controller.pause_recording: the highest level logged and the new
\* ipc.Control.Recording
pause_recording(rec) ==
  IF ~rec.active THEN [log |-> "WARNING", rec |-> rec]
  ELSE [log |-> "INFO", rec |-> [rec EXCEPT !.active = FALSE]]

\* RPC start_recording(compression_method). An exception of os.mkdir leaves
\* start_recording and is caught and logged by _execute_rpc.
StartRecording(compression_method, mkdir_ok) ==
  /\ ctrl_pc = "run"
  /\ LET r == start_recording(Recording, compression_method,
                              mkdir_ok \/ folder_name(now) \in rec_disk
                                       \/ Recording.folder \in rec_disk)
     IN /\ Recording' = r.rec
        /\ rec_ret' = r.ret
        /\ rec_log' = IF r.ret = "raised" THEN "WARNING" ELSE r.log
        /\ rec_disk' = IF r.rec.active /\ ~Recording.active
                       THEN rec_disk \cup {r.rec.folder}
                       ELSE rec_disk
  /\ UNCHANGED <<State, Protocol, protocol, phase_start_time, alive>>
  /\ UNCHANGED <<now, histvars, calls, shutvars>>
  /\ UNCHANGED <<msgvars, rpcvars, ringvars, trigvars, io_setup, tickvars, latevars>>

\* RPC pause_recording
PauseRecording ==
  /\ ctrl_pc = "run"
  /\ Recording' = pause_recording(Recording).rec
  /\ rec_ret' = "None"
  /\ rec_log' = pause_recording(Recording).log
  /\ UNCHANGED rec_disk
  /\ UNCHANGED <<State, Protocol, protocol, phase_start_time, alive>>
  /\ UNCHANGED <<now, histvars, calls, shutvars>>
  /\ UNCHANGED <<msgvars, rpcvars, ringvars, trigvars, io_setup, tickvars, latevars>>

\* RPC stop_recording
StopRecording ==
  /\ ctrl_pc = "run"
  /\ Recording' = stop_recording(Recording)
  /\ State' = [State EXCEPT ![Controller] = "IDLE"]
  /\ rec_ret' = "None"
  /\ rec_log' = "INFO"
  /\ UNCHANGED rec_disk
  /\ UNCHANGED <<Protocol, protocol, phase_start_time, alive>>
  /\ UNCHANGED <<now, histvars, calls, shutvars>>
  /\ UNCHANGED <<msgvars, rpcvars, ringvars, trigvars, io_setup, tickvars, latevars>>

\* RPC set_enable_recording(newstate)
SetEnableRecording(newstate) ==
  /\ ctrl_pc = "run"
  /\ Recording' = set_enable_recording(Recording, newstate)
  /\ rec_ret' = "None"
  /\ rec_log' = "none"
  /\ UNCHANGED rec_disk
  /\ UNCHANGED <<State, Protocol, protocol, phase_start_time, alive>>
  /\ UNCHANGED <<now, histvars, calls, shutvars>>
  /\ UNCHANGED <<msgvars, rpcvars, ringvars, trigvars, io_setup, tickvars, latevars>>

\* time passes between the recording calls
RecTick ==
  /\ now < MaxRecTime
  /\ now' = now + 1
  /\ UNCHANGED <<progvars, histvars, calls, shutvars>>
  /\ UNCHANGED extvars

RecNext ==
  \/ \E cm \in CompressionMethods, mkdir_ok \in BOOLEAN :
       StartRecording(cm, mkdir_ok)
  \/ PauseRecording
  \/ StopRecording
  \/ \E newstate \in BOOLEAN : SetEnableRecording(newstate)
  \/ RecTick

RecSpec == Init /\ [][RecNext]_vars

RecTypeOK ==
  /\ Recording.enabled \in BOOLEAN /\ Recording.active \in BOOLEAN
  /\ Recording.use_compression \in BOOLEAN
  /\ Recording.compression_method \in CompressionMethods
  /\ Recording.folder \in 0 .. folder_name(MaxRecTime)
  /\ rec_disk \subseteq 1 .. folder_name(MaxRecTime)
  /\ rec_ret \in {"none", "None", "True", "False", "raised"}
  /\ rec_log \in {"none", "DEBUG", "INFO", "WARNING"}
  /\ (Recording.active => Recording.folder \in rec_disk)

\* C24 -- start_recording called while a recording is active logs a warning,
\* returns False and leaves the recording control (active flag, folder path,
\* compression settings) unchanged.
C24_Step ==
  (Recording.active
     /\ \E cm \in CompressionMethods, mkdir_ok \in BOOLEAN :
          StartRecording(cm, mkdir_ok))
    => /\ rec_ret' = "False"
       /\ rec_log' = "WARNING"
       /\ Recording' = Recording

C24_StartWhileActive == [][C24_Step]_vars

\* C24 witness: start_recording returned False for an active recording that
\* uses no compression
C24_Witness ==
  /\ rec_ret = "False"
  /\ Recording.active
  /\ ~Recording.use_compression

\* C25 -- pause_recording and stop_recording set recording-active to false;
\* pause_recording keeps the folder path and stop_recording clears it, so a
\* start_recording that follows stop_recording creates a new folder and one
\* that follows pause_recording reuses the folder of the paused recording.
C25_Step ==
  /\ PauseRecording
       => ~Recording'.active /\ Recording'.folder = Recording.folder
  /\ StopRecording
       => ~Recording'.active /\ Recording'.folder = 0
  /\ (/\ \E cm \in CompressionMethods, mkdir_ok \in BOOLEAN :
            StartRecording(cm, mkdir_ok)
      /\ Recording'.active /\ ~Recording.active)
       => IF Recording.folder = 0
          THEN Recording'.folder \notin rec_disk
          ELSE Recording'.folder = Recording.folder

C25_PauseStopFolder == [][C25_Step]_vars

\* C26 -- If the recording output folder cannot be created the protocol can
\* still run: a start_protocol call that passes the busy check with recording
\* enabled (it names the recording folder) puts the supervisor in
\* PREPARE_PROTOCOL, with recording-active true only if the folder exists.
C26_Step ==
  (Recording.folder = 0 /\ Recording'.folder # 0)
    => State'[Controller] = "PREPARE_PROTOCOL"

C26_FolderFailure == [][C26_Step]_vars

\* ------------------------------------------------------------------------
\* Construction of the Io process: Io.__init__ sets up the device and
\* enters run() only if connect() and setup() succeeded
\* ------------------------------------------------------------------------
\* the controller has spawned the processes; Io is in __init__ before the
\* set-up of its device (AbstractProcess.__init__ has set STARTING)
SetupInit ==
  /\ State = [p \in ProcessNames |-> IF p = "Io" THEN "STARTING" ELSE "IDLE"]
  /\ Protocol = [name |-> None, phase_id |-> None,
                 phase_start |-> None, phase_stop |-> None]
  /\ Recording = [enabled |-> TRUE, active |-> FALSE, folder |-> 0,
                  use_compression |-> FALSE, compression_method |-> None]
  /\ protocol = <<>>
  /\ phase_start_time = [w \in ActiveProtocols |-> None]
  /\ alive = [w \in ActiveProtocols |-> w # "Io"]
  /\ now = 0
  /\ prepared = [w \in ActiveProtocols |-> None]
  /\ ran = [w \in ActiveProtocols |-> None]
  /\ entered = {}
  /\ aborted = FALSE
  /\ sinceAbort = [w \in ActiveProtocols |-> "-"]
  /\ calls = 0
  /\ Pipes = [w \in ActiveProtocols |-> <<>>]
  /\ processes = ActiveProtocols
  /\ ctrl_pc = "run"
  /\ prompted = FALSE
  /\ MsgInit
  /\ RpcInit
  /\ RingInit
  /\ TrigInit
  /\ RecInit
  /\ io_setup = "pending"
  /\ TickInit
  /\ FileInit
  /\ FanInit

\* the outcomes of the device set-up: it succeeds, it raises (no device, or
\* connect() or setup() raises), or connect() or setup() returns False
SetupOutcomes == {"ok", "raised", "failed"}

\* Io.__init__ from the set-up of the device on
IoSetup(outcome) ==
  /\ io_setup = "pending"
  /\ io_setup' = outcome
  /\ State' = [State EXCEPT !["Io"] =
                 CASE outcome = "ok" -> "IDLE"
                   [] outcome = "raised" -> "STOPPED"
                   [] outcome = "failed" -> @]
  /\ alive' = [alive EXCEPT !["Io"] = (outcome = "ok")]
  /\ UNCHANGED <<Protocol, Recording, protocol, phase_start_time>>
  /\ UNCHANGED <<now, histvars, calls, shutvars>>
  /\ UNCHANGED <<msgvars, rpcvars, ringvars, trigvars, recvars, tickvars, latevars>>

SetupNext ==
  \/ GuiNext
  \/ \E outcome \in SetupOutcomes : IoSetup(outcome)

SetupSpec == SetupInit /\ [][SetupNext]_vars

\* every process keeps running its loop and Io.__init__ runs to its end
FairSetupSpec ==
  /\ SetupSpec
  /\ WF_vars(ControllerMain)
  /\ \A w \in ActiveProtocols : WF_vars(RunProtocol(w))
  /\ WF_vars(Tick)
  /\ WF_vars(\E outcome \in SetupOutcomes : IoSetup(outcome))

\* C27 -- When the set-up of a worker's hardware adapter fails (it raises or
\* reports failure) the worker's state is STOPPED and its loop does not run,
\* and the supervisor notices: it does not wait forever in PREPARE_PROTOCOL
\* for the stopped worker.
C27_Stopped ==
  io_setup \in {"raised", "failed"}
    => in_state("STOPPED", "Io") /\ ~alive["Io"]

C27_SetupFailure ==
  /\ []C27_Stopped
  /\ (io_setup \in {"raised", "failed"}
        /\ in_state("PREPARE_PROTOCOL", Controller))
       ~> ~in_state("PREPARE_PROTOCOL", Controller)

\* C28 -- start_protocol takes effect only when the supervisor is in IDLE: a
\* call made while a protocol is in progress leaves the supervisor state, the
\* protocol name and the phase info (phase_id, start, stop) unchanged.
C28_Step ==
  (calls' # calls /\ ~aborted' /\ ~in_state("IDLE", Controller))
    => (State' = State /\ Protocol' = Protocol)

C28_StartOnlyWhenIdle == [][C28_Step]_vars

\* ------------------------------------------------------------------------
\* Event loop of a worker (AbstractProcess.run): while _is_running():
\* handle_inbox(), wait for the interval, main()
\* ------------------------------------------------------------------------
\* Def.Signal: the signals a worker's pipe carries
TickSignals == {"rpc", "shutdown"}

\* the controller (or a process through it) sends a message to the worker
TickSend(signal) ==
  /\ tick_sent < MaxInbox
  /\ tick_pc # "exited"
  /\ tick_inbox' = Append(tick_inbox, signal)
  /\ tick_sent' = tick_sent + 1
  /\ UNCHANGED <<tick_pc, tick_shutdown, tick_cell, tick_handled, tick_left,
                 task_scheduled, task_ctrl>>
  /\ UNCHANGED <<protovars, msgvars, rpcvars, ringvars, trigvars, recvars,
                 io_setup, latevars>>

\* the messages one call of handle_inbox receives: poll() and one recv();
\* _start_shutdown goes on receiving until the pipe is empty
inbox_taken(inbox) ==
  IF inbox = <<>> THEN <<>>
  ELSE IF Head(inbox) = "shutdown" THEN inbox
  ELSE <<Head(inbox)>>

\* handle_inbox at the start of an iteration of the loop
HandleInbox ==
  /\ tick_pc = "inbox"
  /\ LET taken_now == inbox_taken(tick_inbox)
         got_shutdown == \E k \in 1 .. Len(taken_now) : taken_now[k] = "shutdown"
     IN /\ tick_inbox' = SubSeq(tick_inbox, Len(taken_now) + 1, Len(tick_inbox))
        /\ tick_handled' = tick_handled \o taken_now
        /\ tick_left' = Len(tick_inbox) - Len(taken_now)
        /\ tick_shutdown' = (tick_shutdown \/ got_shutdown)
        /\ tick_cell' = IF got_shutdown THEN "STOPPED" ELSE tick_cell
        /\ task_scheduled' =
             (task_scheduled \/
                \E k \in 1 .. Len(taken_now) : taken_now[k] = "schedule_task")
  /\ tick_pc' = "main"
  /\ UNCHANGED <<tick_sent, task_ctrl>>
  /\ UNCHANGED <<protovars, msgvars, rpcvars, ringvars, trigvars, recvars,
                 io_setup, latevars>>

\* main() of the iteration, then the test of _is_running()
WorkerMain ==
  /\ tick_pc = "main"
  /\ tick_pc' = IF tick_shutdown THEN "exited" ELSE "inbox"
  /\ UNCHANGED <<tick_inbox, tick_shutdown, tick_cell, tick_sent, tick_handled,
                 tick_left, task_scheduled, task_ctrl>>
  /\ UNCHANGED <<protovars, msgvars, rpcvars, ringvars, trigvars, recvars,
                 io_setup, latevars>>

TickNext ==
  \/ \E signal \in TickSignals : TickSend(signal)
  \/ HandleInbox
  \/ WorkerMain

TickSpec == Init /\ [][TickNext]_vars

TickTypeOK ==
  /\ tick_inbox \in Seq(TickSignals)
  /\ tick_pc \in {"inbox", "main", "exited"}
  /\ tick_shutdown \in BOOLEAN
  /\ tick_cell \in {"IDLE", "STOPPED"}
  /\ tick_sent \in 0 .. MaxInbox
  /\ Len(tick_inbox) + Len(tick_handled) = tick_sent
  /\ tick_left \in 0 .. MaxInbox

\* C29 -- Worker tick on Shutdown: in a tick whose inbox carried a Shutdown
\* the worker does not execute main() any more; main() runs only in ticks in
\* which no Shutdown was received.
C29_Step == WorkerMain => ~tick_shutdown

C29_NoMainAfterShutdown == [][C29_Step]_vars

\* C30 -- Inbox drain: every message that is pending in the worker's pipe
\* when the tick's handle_inbox is called is handled before that tick's main()
\* runs.
C30_Inv == tick_pc = "main" => tick_left = 0

C30_InboxDrain == []C30_Inv

\* C31 -- Readable range: a read that observes the latest index k = w - 1
\* returns only entries with indices in [max(0, k - N + 1), k]; it returns no
\* negative index and no content of a slot that was never written, also when
\* the buffer is empty or holds fewer entries than requested.
C31_Inv ==
  rd.pc = "done"
    => /\ \A j \in 1 .. Len(rd.idcs) :
            /\ rd.idcs[j] >= 0
            /\ rd.idcs[j] >= currentIdx - length
            /\ rd.idcs[j] <= currentIdx - 1
       /\ \A j \in 1 .. Len(rd.values) : rd.values[j] # Empty

C31_ReadableRange == []C31_Inv

\* ------------------------------------------------------------------------
\* Ring buffer without concurrent writes: the producer's update and a read
\* do not overlap (a read starts between two updates and the producer waits
\* for its end)
\* ------------------------------------------------------------------------
QuietRingNext ==
  \/ rd.pc = "idle" /\ ProducerWrite
  \/ rd.pc = "idle" /\ ProducerNext
  \/ ~written /\ \E c \in 1 .. length : ReadLast(c)
  \/ ~written /\ ReadFrom
  \/ ReadListIdx
  \/ ReadBranch
  \/ ReadHi
  \/ ReadCopy
  \/ ReadCopy2
  \/ ReadReturn

QuietRingSpec == Init /\ [][QuietRingNext]_vars

\* C32 -- Read result: with no concurrent write, read(last = c) for
\* 1 <= c <= min(w, N) returns exactly the entries with indices w - c .. w - 1
\* in increasing order, each value being the one written for its index, also
\* when the window wraps around the end of the ring; read(last_idx = f)
\* returns the entries with indices f .. w - 1.
C32_Inv ==
  (rd.pc = "done" /\ rd.last <= currentIdx)
    => /\ rd.idcs = range(currentIdx - rd.last, currentIdx)
       /\ rd.values = [j \in 1 .. rd.last |-> val(currentIdx - rd.last + j - 1)]
       /\ (rd.consumer => rd.idcs = range(c_next, currentIdx))

C32_WitnessFrom ==
  /\ rd.pc = "done"
  /\ rd.consumer
  /\ rd.last > 1
  /\ c_next > 0

\* C38 -- Read consistency under concurrent writes: every index that read
\* returns denotes the slot its value was read from, and as many indices as
\* values are returned, also when the producer calls next() between the
\* steps of the read.
C38_Inv ==
  rd.pc = "done"
    => /\ Len(rd.idcs) = Len(rd.values)
       /\ \A j \in 1 .. Len(rd.idcs) :
            rd.idcs[j] % length = (rd.list_idx - rd.last + j - 1) % length

C38_ReadConsistency == []C38_Inv

\* C33: an evaluation that reads fewer than 2 entries is a no-op: it invokes
\* no callback and leaves last_read_index unchanged, so that the entries are
\* evaluated by a later call
C33_Step ==
  (process /\ Len(attribute_read(trig_last)) < 2) =>
    (fired' = fired /\ trig_last' = trig_last)

C33_ReadIndexAdvance == [][C33_Step]_vars

\* C34: while the trigger is inactive no step invokes a callback or moves
\* last_read_index, and deactivating the trigger takes back none of the
\* callbacks already invoked
C34_Step ==
  /\ (trig_kind # NoTrigger /\ ~trig_active) =>
       (fired' = fired /\ trig_last' = trig_last)
  /\ set_active(FALSE) => fired' = fired

TaskSignals == {"schedule_task", "shutdown"}

\* the states Controller.main can move the controller's cell to, given the
\* cell of the worker it waits for
ctrl_next(ctrl, cell) ==
  CASE ctrl = "IDLE" -> {"PREPARE_PROTOCOL"}
    [] ctrl = "PREPARE_PROTOCOL" ->
         IF cell = "WAIT_FOR_PHASE" THEN {"PREPARE_PHASE"} ELSE {}
    [] ctrl = "PREPARE_PHASE" ->
         IF cell = "READY" THEN {"RUNNING"} ELSE {}
    [] ctrl = "RUNNING" -> {"PHASE_END"}
    [] ctrl = "PHASE_END" -> {"PREPARE_PHASE", "PROTOCOL_END"}
    [] ctrl = "PROTOCOL_END" ->
         IF cell = "IDLE" THEN {"IDLE"} ELSE {}
    [] OTHER -> {}

\* the controller moves on: start_protocol from IDLE, main from the others
TaskCtrl ==
  /\ \E next \in ctrl_next(task_ctrl, tick_cell) : task_ctrl' = next
  /\ UNCHANGED <<tick_inbox, tick_pc, tick_shutdown, tick_cell, tick_sent,
                 tick_handled, tick_left, task_scheduled>>
  /\ UNCHANGED <<protovars, msgvars, rpcvars, ringvars, trigvars, recvars,
                 io_setup, latevars>>

\* the iteration after main(): the test of _is_running()
loop_test == IF tick_shutdown THEN "exited" ELSE "inbox"

\* Worker.main, first statement: self._run_protocol(); the clock decides the
\* two time tests
Worker_main ==
  /\ tick_pc = "main"
  /\ \E start_passed, stop_passed \in BOOLEAN :
       tick_cell' = run_protocol_cell(tick_cell, task_ctrl,
                                      task_ctrl = "RUNNING" /\ start_passed,
                                      stop_passed)
  /\ tick_pc' = "tasks"
  /\ UNCHANGED <<tick_inbox, tick_shutdown, tick_sent, tick_handled,
                 tick_left, task_scheduled, task_ctrl>>
  /\ UNCHANGED <<protovars, msgvars, rpcvars, ringvars, trigvars, recvars,
                 io_setup, latevars>>

\* Worker.main, the loop over the scheduled tasks: a task whose time has
\* come is run; run_task starts with set_state(RUNNING)
Worker_tasks ==
  /\ tick_pc = "tasks"
  /\ \E due \in BOOLEAN :
       IF task_scheduled /\ due
       THEN /\ tick_cell' = "RUNNING"
            /\ tick_pc' = "task"
       ELSE /\ tick_cell' = tick_cell
            /\ tick_pc' = loop_test
  /\ UNCHANGED <<tick_inbox, tick_shutdown, tick_sent, tick_handled,
                 tick_left, task_scheduled, task_ctrl>>
  /\ UNCHANGED <<protovars, msgvars, rpcvars, ringvars, trigvars, recvars,
                 io_setup, latevars>>

\* Worker.run_task, after the task has run: set_state(IDLE)
run_task ==
  /\ tick_pc = "task"
  /\ tick_cell' = "IDLE"
  /\ tick_pc' = loop_test
  /\ UNCHANGED <<tick_inbox, tick_shutdown, tick_sent, tick_handled,
                 tick_left, task_scheduled, task_ctrl>>
  /\ UNCHANGED <<protovars, msgvars, rpcvars, ringvars, trigvars, recvars,
                 io_setup, latevars>>

TaskNext ==
  \/ \E signal \in TaskSignals : TickSend(signal)
  \/ HandleInbox
  \/ Worker_main
  \/ Worker_tasks
  \/ run_task
  \/ TaskCtrl

TaskSpec == Init /\ [][TaskNext]_vars

\* the edges of the protocol-responder table
ResponderEdges ==
  {<<"IDLE", "WAIT_FOR_PHASE">>, <<"WAIT_FOR_PHASE", "READY">>,
   <<"READY", "RUNNING">>, <<"RUNNING", "PHASE_END">>,
   <<"PHASE_END", "WAIT_FOR_PHASE">>, <<"PHASE_END", "IDLE">>}

\* C35: while a protocol is in progress the worker's state cell changes
\* only along the edges of the protocol-responder table or to STOPPED; no
\* other operation of the worker writes RUNNING or IDLE into it
C35_Step ==
  (task_ctrl # "IDLE" /\ tick_cell' # tick_cell) =>
    \/ <<tick_cell, tick_cell'>> \in ResponderEdges
    \/ tick_cell' = "STOPPED"

C35_ResponderEdges == [][C35_Step]_vars

\* C36: once the worker has set its state cell to STOPPED no later step of
\* the worker changes the cell
C36_Step == tick_cell = "STOPPED" => tick_cell' = "STOPPED"

C36_StoppedAbsorbing == [][C36_Step]_vars

TaskTypeOK ==
  /\ tick_inbox \in Seq(TaskSignals)
  /\ tick_pc \in {"inbox", "main", "tasks", "task", "exited"}
  /\ tick_cell \in States
  /\ task_ctrl \in States
  /\ task_scheduled \in BOOLEAN
  /\ tick_pc = "task" => tick_cell = "RUNNING"

\* ------------------------------------------------------------------------
\* The recording RPCs during a protocol
\* ------------------------------------------------------------------------
RecProtoNext ==
  \/ Next
  \/ PauseRecording
  \/ StopRecording

RecProtoSpec == Init /\ [][RecProtoNext]_vars

ProtocolStates ==
  {"PREPARE_PROTOCOL", "PREPARE_PHASE", "RUNNING", "PHASE_END",
   "PROTOCOL_END"}

\* C37: stop_recording and pause_recording called while the controller is
\* in a protocol state leave the controller's state cell and the protocol
\* control unchanged
C37_Step ==
  ((StopRecording \/ PauseRecording) /\ State[Controller] \in ProtocolStates)
    => (State' = State /\ Protocol' = Protocol)

C37_RecordingCallsFrame == [][C37_Step]_vars

\* ------------------------------------------------------------------------
\* Producer: the recording file of Routines (src/Routine.py)
\* ------------------------------------------------------------------------
\* Routines.handleFile: the file it returns (ret), the value of h5File it
\* leaves, whether it closed the open file, and the level it logs
handleFile(file, rec) ==
  IF rec.active /\ file # None
  THEN [ret |-> file, h5File |-> file, closed |-> FALSE, log |-> "none"]
  ELSE IF rec.active
  THEN IF rec.folder = 0
       THEN [ret |-> None, h5File |-> file, closed |-> FALSE,
             log |-> "WARNING"]
       ELSE [ret |-> rec.folder, h5File |-> rec.folder, closed |-> FALSE,
             log |-> "DEBUG"]
  ELSE IF rec.folder # 0
  THEN [ret |-> None, h5File |-> file, closed |-> FALSE, log |-> "none"]
  ELSE [ret |-> None, h5File |-> None, closed |-> file # None,
        log |-> "none"]

\* Routines.update for one routine: streamToFile(handleFile()) appends the
\* sample to the file it is given; without arguments update returns at once
update(has_args) ==
  /\ IF ~has_args
     THEN UNCHANGED filevars
     ELSE LET f == handleFile(h5File, Recording)
          IN /\ h5File' = f.h5File
             /\ file_samples' = IF f.ret # None
                                THEN file_samples \cup
                                       {<<f.ret, Recording.folder>>}
                                ELSE file_samples
             /\ file_closed' = IF f.closed
                               THEN file_closed \cup {h5File}
                               ELSE file_closed
  /\ UNCHANGED <<protovars, msgvars, rpcvars, ringvars, trigvars, recvars,
                 io_setup, tickvars, fanvars>>

FileNext ==
  \/ RecNext
  \/ \E has_args \in BOOLEAN : update(has_args)

FileSpec == Init /\ [][FileNext]_vars

FileTypeOK ==
  /\ h5File \in {None} \cup (1 .. folder_name(MaxRecTime))
  /\ file_samples \subseteq
       (1 .. folder_name(MaxRecTime)) \X (1 .. folder_name(MaxRecTime))
  /\ file_closed \subseteq 1 .. folder_name(MaxRecTime)

\* C39: every sample appended while a recording session is active goes to
\* a file opened under the folder of that session, whatever the
\* interleaving of stop_recording, start_recording and the producer's ticks
C39_Inv == \A s \in file_samples : s[1] = s[2]

C39_FilePerSession == []C39_Inv

\* ------------------------------------------------------------------------
\* Routine triggers (src/vxpy/core/routine.py)
\* ------------------------------------------------------------------------
\* the list self._registered of the Trigger of trigger_name: _registered is
\* an attribute of the class, and add_callback appends to it in place, so
\* every Trigger reads the same list
Trigger_registered(trigger_name) == trigger_registered

\* Routine.add_trigger, as the routines call it in their set-up
add_trigger(trigger_name) ==
  /\ trigger_name \notin triggers
  /\ triggers' = triggers \cup {trigger_name}
  /\ UNCHANGED <<trigger_registered, connected, emitted, rpc_sent, emit_log>>
  /\ UNCHANGED <<protovars, msgvars, rpcvars, ringvars, trigvars, recvars,
                 io_setup, tickvars, filevars>>

\* Trigger.add_callback, called by Routine._connect_triggers for a callback
\* that connect_to_trigger has stored for trigger_name
add_callback(trigger_name, process_name, callback) ==
  /\ trigger_name \in triggers
  /\ <<process_name, callback>> \notin connected[trigger_name]
  /\ trigger_registered' =
       Append(Trigger_registered(trigger_name), <<process_name, callback>>)
  /\ connected' = [connected EXCEPT ![trigger_name] =
                     @ \cup {<<process_name, callback>>}]
  /\ UNCHANGED <<triggers, emitted, rpc_sent, emit_log>>
  /\ UNCHANGED <<protovars, msgvars, rpcvars, ringvars, trigvars, recvars,
                 io_setup, tickvars, filevars>>

\* Routine.emit_trigger with Trigger.emit: one ipc.rpc per registered entry
emit_trigger(trigger_name) ==
  /\ emitted' = trigger_name
  /\ IF trigger_name \in triggers
     THEN /\ rpc_sent' = Trigger_registered(trigger_name)
          /\ emit_log' = "none"
     ELSE /\ rpc_sent' = <<>>
          /\ emit_log' = "WARNING"
  /\ UNCHANGED <<triggers, trigger_registered, connected>>
  /\ UNCHANGED <<protovars, msgvars, rpcvars, ringvars, trigvars, recvars,
                 io_setup, tickvars, filevars>>

FanNext ==
  \/ \E trigger_name \in TriggerNames : add_trigger(trigger_name)
  \/ \E trigger_name \in TriggerNames, pair \in CallbackPairs :
       add_callback(trigger_name, pair[1], pair[2])
  \/ \E trigger_name \in TriggerNames : emit_trigger(trigger_name)

FanSpec == Init /\ [][FanNext]_vars

FanTypeOK ==
  /\ triggers \subseteq TriggerNames
  /\ trigger_registered \in Seq(CallbackPairs)
  /\ connected \in [TriggerNames -> SUBSET CallbackPairs]
  /\ emitted \in TriggerNames \cup {NoEmit}
  /\ rpc_sent \in Seq(CallbackPairs)
  /\ emit_log \in {"none", "WARNING"}

\* C40: emitting a trigger sends exactly one RPC to each (process, callback)
\* pair connected to that trigger and none to the pairs connected to other
\* triggers; emitting a name that does not exist sends nothing and logs a
\* warning
C40_Step ==
  \A trigger_name \in TriggerNames :
    emit_trigger(trigger_name) =>
      IF trigger_name \in triggers
      THEN /\ Len(rpc_sent') = Cardinality(connected[trigger_name])
           /\ {rpc_sent'[k] : k \in 1 .. Len(rpc_sent')} =
                connected[trigger_name]
      ELSE rpc_sent' = <<>> /\ emit_log' = "WARNING"

C40_TriggerFanOut == [][C40_Step]_vars

====
